---- MODULE Spec2Model ----
(***************************************************************************)
(* Sharded two-level PBFT ordering core: cluster topology (SystemInfo),    *)
(* the replication state machine (Commitment) and the inter-replica        *)
(* transport (ReplicaCommunicator), as they are in the source.             *)
(*                                                                         *)
(* MessageManager, TransactionCollector, DuplicateManager and the          *)
(* transaction utilities are not among the source files; they are modelled *)
(* from the specification (sections 4.2, 4.3) and marked as such.          *)
(***************************************************************************)
EXTENDS Integers, Sequences, FiniteSets, Bags, TLC

\* ------------------------------------------------------------------ bounds

\* Number of client submissions (first sends and resends) in one run.
MaxRequests == 2

\* Configured cap on in-flight sequence numbers (AssignNextSeq backpressure).
MaxInFlight == 1

\* Topology under test: largest shard count, largest replica id, and the
\* number of topology operations after construction.
MaxShards == 2

MaxNodes == 3

MaxTopoOps == 5

\* Transport under test: replicas in the roster of the sending replica, and
\* messages it sends.
MaxPeers == 2

MaxSends == 3

\* Threads that call into one SystemInfo object at the same time.
MaxThreads == 2

\* Faulty-ingress machine: deliveries made by the faulty peer.
MaxFaulty == 1

\* Capacity of a per-destination queue of the transport.
MaxQueue == 1

\* Sequence numbers whose prepare quorum concurrent ingress threads report.
MaxSeq == 3

\* Recovery deliveries in one run, and the highest seq a recovery message
\* names.
MaxRecovery == 1

MaxRecoverySeq == 2

Hashes == {"H1", "H2"}

\* ------------------------------------------------------- program constants

\* "not assigned" sentinel of GetShardOfNode / GetPrimaryOfShard (0xFFFFFFFF
\* in the source; any value that is no replica id and no shard id serves).
UINT32_MAX == -1

\* Initial min_size of the least-loaded search; stands for the largest size_t.
SIZE_MAX == 2147483647

\* Return codes of the entry points.
RET_OK == 0

RET_REJECT == -2

RET_FORWARDED == -3

\* ----------------------------------------------------------------- helpers

EmptyMap == [x \in {} |-> 0]

Range(f) == {f[x] : x \in DOMAIN f}

SeqToSet(s) == {s[i] : i \in 1..Len(s)}

\* --------------------------------------------------------------- SystemInfo
\* A SystemInfo object is a record; unordered_map is a function whose DOMAIN
\* is the set of keys present.

ReplicaInfo(id) == [id |-> id, ip |-> "127.0.0.1", port |-> 1000 + id]

SystemInfoCtor ==
  [replicas_ |-> <<>>, primary_id_ |-> 1, view_ |-> 1, shard_count_ |-> 0,
   node_to_shard_ |-> EmptyMap, shard_to_nodes_ |-> EmptyMap,
   shard_primaries_ |-> EmptyMap]

GetShardCount(si) == si.shard_count_

GetShardSize(si, shard_id) ==
  IF shard_id \in DOMAIN si.shard_to_nodes_
  THEN Len(si.shard_to_nodes_[shard_id]) ELSE 0

GetNodesInShard(si, shard_id) ==
  IF shard_id \in DOMAIN si.shard_to_nodes_
  THEN si.shard_to_nodes_[shard_id] ELSE <<>>

GetShardOfNode(si, node_id) ==
  IF node_id \in DOMAIN si.node_to_shard_
  THEN si.node_to_shard_[node_id] ELSE UINT32_MAX

GetPrimaryOfShard(si, shard_id) ==
  IF shard_id \in DOMAIN si.shard_primaries_
  THEN si.shard_primaries_[shard_id] ELSE UINT32_MAX

GetPrimaryId(si) == si.primary_id_

\* The default constructor initialises primary_id_ and view_ only;
\* shard_count_ has no initialiser and holds whatever `garbage` was in memory.
SystemInfoDefault(garbage) == [SystemInfoCtor EXCEPT !.shard_count_ = garbage]

SetReplicas(si, replicas) == [si EXCEPT !.replicas_ = replicas]

\* Construction from a config (a non-empty replica list): the first entry is
\* the primary, the list is stored, no shard is touched.
SystemInfoFromConfig(replicas, garbage) ==
  SetReplicas([SystemInfoDefault(garbage) EXCEPT !.primary_id_ = replicas[1].id],
              replicas)

SetShardCount(si, count) ==
  [si EXCEPT !.shard_count_ = count, !.node_to_shard_ = EmptyMap,
             !.shard_to_nodes_ = EmptyMap, !.shard_primaries_ = EmptyMap]

\* shard_to_nodes_[i] in the search loop default-inserts an empty vector for
\* every i < shard_count_.
TouchShards(si) ==
  [i \in (DOMAIN si.shard_to_nodes_) \cup (0..(si.shard_count_ - 1)) |->
     IF i \in DOMAIN si.shard_to_nodes_ THEN si.shard_to_nodes_[i] ELSE <<>>]

\* Faulty variant of the search: `<=` for `<`, so ties go to the last shard.
RECURSIVE FindTargetLastTie(_, _, _, _, _)
FindTargetLastTie(stn, i, count, target, min_size) ==
  IF i >= count THEN target
  ELSE IF Len(stn[i]) <= min_size
       THEN FindTargetLastTie(stn, i + 1, count, i, Len(stn[i]))
       ELSE FindTargetLastTie(stn, i + 1, count, target, min_size)

\* Faulty variant of the search: always the first shard.
FindTargetFirst(stn, i, count, target, min_size) == 0

\* The search loop: the first shard with strictly fewer nodes than any before.
RECURSIVE FindTarget(_, _, _, _, _)
FindTarget(stn, i, count, target, min_size) ==
  IF i >= count THEN target
  ELSE IF Len(stn[i]) < min_size
       THEN FindTarget(stn, i + 1, count, i, Len(stn[i]))
       ELSE FindTarget(stn, i + 1, count, target, min_size)

\* Faulty variant: the newest member becomes the shard's primary.
AddReplicaToShardNewestPrimary(si, replica) ==
  IF si.shard_count_ = 0 THEN si
  ELSE LET stn == TouchShards(si)
           target == FindTarget(stn, 0, si.shard_count_, 0, SIZE_MAX)
       IN [si EXCEPT
             !.replicas_ = Append(@, replica),
             !.node_to_shard_ = (replica.id :> target) @@ @,
             !.shard_to_nodes_ = [stn EXCEPT ![target] = Append(@, replica.id)],
             !.shard_primaries_ = (target :> replica.id) @@ @]

AddReplicaToShard(si, replica) ==
  IF si.shard_count_ = 0 THEN si
  ELSE LET stn == TouchShards(si)
           target == FindTarget(stn, 0, si.shard_count_, 0, SIZE_MAX)
       IN [si EXCEPT
             !.replicas_ = Append(@, replica),
             !.node_to_shard_ = (replica.id :> target) @@ @,
             !.shard_to_nodes_ = [stn EXCEPT ![target] = Append(@, replica.id)],
             !.shard_primaries_ =
                IF target \in DOMAIN @ THEN @ ELSE (target :> replica.id) @@ @]

\* Faulty variant: no look-up of the id among the registered replicas.
AddReplicaNoDuplicateCheck(si, replica) ==
  IF replica.id = 0 \/ replica.ip = "" \/ replica.port = 0 THEN si
  ELSE AddReplicaToShard(si, replica)

AddReplica(si, replica) ==
  IF replica.id = 0 \/ replica.ip = "" \/ replica.port = 0 THEN si
  ELSE IF \E i \in 1..Len(si.replicas_) : si.replicas_[i].id = replica.id
       THEN si
       ELSE AddReplicaToShard(si, replica)

\* The topology after SetShardCount(count) and AddReplica of the ids of
\* `order`, in that order.
RECURSIVE AddAll(_, _)
AddAll(si, order) ==
  IF order = <<>> THEN si
  ELSE AddAll(AddReplica(si, ReplicaInfo(Head(order))), Tail(order))

Bootstrap(count, order) == AddAll(SetShardCount(SystemInfoCtor, count), order)

\* ------------------------------------------------------------------ Request
\* type, seq, hash, data, data_signature (dsig: "ok" verifies, "bad" does
\* not, "none" is cleared), sender_id, primary_id, is_recovery; `signed` is
\* the context's signature, `to` the destination the transport was given and
\* `ret` the result code a RESPONSE carries.

NoData == "none"

\* The content digest of a batch payload.
CalculateHash(data) ==
  CASE data = "D1" -> "H1" [] data = "D2" -> "H2" [] OTHER -> "H0"

ClientId == 0

UserRequest(to, hash, data, signed, dsig) ==
  [type |-> "NEW_REQUEST", seq |-> 0, hash |-> hash, data |-> data,
   dsig |-> dsig, sender |-> ClientId, primary_id |-> 0,
   is_recovery |-> FALSE, signed |-> signed, to |-> to, ret |-> 0]

\* resdb::NewRequest(type, request, sender_id): a copy with the type and the
\* sender replaced.
NewRequest(type, request, sender_id) ==
  [request EXCEPT !.type = type, !.sender = sender_id, !.signed = TRUE]

\* SignatureVerifier::VerifyMessage(data, data_signature).
VerifyMessage(request) == request.dsig = "ok" /\ request.data # NoData

\* ----------------------------------------------------------- configuration

\* The replicator's communicator runs in long-connection mode.
is_use_long_conn_ == TRUE

\* Commit quorum certificates are off unless SetNeedCommitQC(true) is called.
need_qc_ == FALSE

\* ------------------------------------------------- MessageManager wrappers

GetCurrentPrimary(si) == GetPrimaryId(si)

GetPrimaryOfNode(si, node_id) == GetPrimaryOfShard(si, GetShardOfNode(si, node_id))

NodesInSameShard(si, a, b) == GetShardOfNode(si, a) = GetShardOfNode(si, b)

NodeIds(si) == {si.replicas_[i].id : i \in 1..Len(si.replicas_)}

\* ------------------------------------------------------------ replica state

NewReplicaState ==
  [proposed |-> {}, executed |-> EmptyMap, next_seq |-> 1, slots |-> EmptyMap,
   last_exec |-> 0, resp_queue |-> <<>>, request_complained_ |-> <<>>,
   highest_prepared_seq |-> 0, crashed |-> FALSE]

\* ----------------------------------------------------------- DuplicateGuard

CheckIfExecuted(s, hash) ==
  IF hash \in DOMAIN s.executed THEN s.executed[hash] ELSE 0

IsProposed(s, hash) == hash \in s.proposed

AddProposed(s, hash) == [s EXCEPT !.proposed = @ \cup {hash}]

EraseProposed(s, hash) == [s EXCEPT !.proposed = @ \ {hash}]

MarkExecuted(s, hash, seq) == [s EXCEPT !.executed = (hash :> seq) @@ @]

\* ------------------------------------------------------------- MessageStore

\* f = floor((N-1)/3), Q = 2f+1.
Quorum(n) == 2 * ((n - 1) \div 3) + 1

\* Group of a level: the shard coordinators (outer), the members of the
\* replica's own shard (inner).
Coordinators(si) == Range(si.shard_primaries_)

Members(si, self) == SeqToSet(GetNodesInShard(si, GetShardOfNode(si, self)))

Group(si, self, level) ==
  IF level = "outer" THEN Coordinators(si) ELSE Members(si, self)

GroupSize(si, self, level) ==
  IF level = "outer" THEN GetShardCount(si)
  ELSE GetShardSize(si, GetShardOfNode(si, self))

IdleSlot ==
  [level |-> "none", phase |-> "IDLE", has_pp |-> FALSE, hash |-> "", data |-> NoData,
   dsig |-> "none", primary_id |-> 0, proposer |-> 0, prepares |-> {}, commits |-> {}]

SlotOf(s, seq) == IF seq \in DOMAIN s.slots THEN s.slots[seq] ELSE IdleSlot

PutSlot(s, seq, slot) == [s EXCEPT !.slots = (seq :> slot) @@ @]

\* Matching votes of the level's group; the proposer of the slot's
\* pre-prepare counts as an implicit prepare.
PrepareCount(si, self, slot) ==
  Cardinality({v[1] : v \in {w \in slot.prepares :
                               w[2] = slot.hash /\ w[1] \in Group(si, self, slot.level)}}
              \cup {slot.proposer})

CommitCount(si, self, slot) ==
  Cardinality({v[1] : v \in {w \in slot.commits :
                               w[2] = slot.hash /\ w[1] \in Group(si, self, slot.level)}})

AddPrePrepare(si, self, s, m) ==
  LET slot == SlotOf(s, m.seq) IN
  IF slot.has_pp
  THEN [st |-> s, code |-> IF slot.hash # m.hash THEN "INVALID" ELSE "OK"]
  ELSE [st |-> PutSlot(s, m.seq,
                 [slot EXCEPT !.level = IF self = GetPrimaryOfNode(si, self)
                                        THEN "outer" ELSE "inner",
                              !.phase = "READY_PREPARE", !.has_pp = TRUE,
                              !.hash = m.hash, !.data = m.data, !.dsig = m.dsig,
                              !.primary_id = m.primary_id, !.proposer = m.sender]),
        code |-> "STATE_CHANGED"]

AddPrepare(si, self, s, m) ==
  LET slot == SlotOf(s, m.seq) IN
  IF \E v \in slot.prepares : v[1] = m.sender
  THEN [st |-> s, code |-> "OK"]
  ELSE LET voted == [slot EXCEPT !.prepares = @ \cup {<<m.sender, m.hash>>}]
           cross == /\ voted.has_pp
                    /\ voted.phase = "READY_PREPARE"
                    /\ m.hash = voted.hash
                    /\ m.sender \in Group(si, self, voted.level)
                    /\ PrepareCount(si, self, voted) >=
                         Quorum(GroupSize(si, self, voted.level))
       IN IF cross
          THEN [st |-> PutSlot(s, m.seq, [voted EXCEPT !.phase = "READY_COMMIT"]),
                code |-> "STATE_CHANGED"]
          ELSE [st |-> PutSlot(s, m.seq, voted), code |-> "OK"]

\* The commit quorum of the outer instance hands the slot to the inner
\* instance of the coordinator's shard: the coordinator skips its own inner
\* pre-prepare, so the slot waits for the inner prepares.
AddCommit(si, self, s, m) ==
  LET slot == SlotOf(s, m.seq) IN
  IF \E v \in slot.commits : v[1] = m.sender
  THEN [st |-> s, code |-> "OK"]
  ELSE LET voted == [slot EXCEPT !.commits = @ \cup {<<m.sender, m.hash>>}]
           cross == /\ voted.has_pp
                    /\ voted.phase = "READY_COMMIT"
                    /\ m.hash = voted.hash
                    /\ m.sender \in Group(si, self, voted.level)
                    /\ CommitCount(si, self, voted) >=
                         Quorum(GroupSize(si, self, voted.level))
       IN IF ~cross THEN [st |-> PutSlot(s, m.seq, voted), code |-> "OK"]
          ELSE IF voted.level = "outer"
          THEN [st |-> PutSlot(s, m.seq,
                         [voted EXCEPT !.level = "inner", !.phase = "READY_PREPARE",
                                       !.proposer = self, !.prepares = {},
                                       !.commits = {}]),
                code |-> "STATE_CHANGED"]
          ELSE [st |-> PutSlot(s, m.seq, [voted EXCEPT !.phase = "READY_EXECUTE"]),
                code |-> "STATE_CHANGED"]

AddConsensusMsg(si, self, s, m) ==
  CASE m.type = "PRE_PREPARE" -> AddPrePrepare(si, self, s, m)
    [] m.type = "PREPARE" -> AddPrepare(si, self, s, m)
    [] m.type = "COMMIT" -> AddCommit(si, self, s, m)
    [] OTHER -> [st |-> s, code |-> "INVALID"]

\* The status the replicator compares against READY_PREPARE, READY_COMMIT
\* and READY_EXECUTE: the phase of the outer instance, or the phase of the
\* inner instance (whose prepare and commit stages are distinct values).
GetTransactionState(s, seq) ==
  LET slot == SlotOf(s, seq) IN
  IF slot.level = "inner" /\ slot.phase \in {"READY_PREPARE", "READY_COMMIT"}
  THEN <<"inner", slot.phase>>
  ELSE <<"top", slot.phase>>

READY_PREPARE == <<"top", "READY_PREPARE">>

READY_COMMIT == <<"top", "READY_COMMIT">>

READY_EXECUTE == <<"top", "READY_EXECUTE">>

\* AssignNextSeq: the next sequence number, or an error when the cap on
\* in-flight (assigned, not yet executed) sequences is reached.
AssignOk(s) == (s.next_seq - 1) - s.last_exec < MaxInFlight

AssignNextSeq(s) == [s EXCEPT !.next_seq = @ + 1]

GetNextSeq(s) == s.next_seq

SetNextSeq(s, seq) == [s EXCEPT !.next_seq = seq]

\* ------------------------------------------------------ ReplicaCommunicator
\* A send is the set of (message, destination) pairs handed to connections.

\* The proxy is registered in the client list.
ProxyId == 100

Known(si) == NodeIds(si) \cup {ProxyId}

SendMessageInternal(message, replicas) == {[message EXCEPT !.to = r] : r \in replicas}

\* NetChannel::GetRawMessageString(message, verifier_): the envelope that
\* goes on the wire carries the sending replica's signature.
GetRawMessageString(message) == [message EXCEPT !.signed = TRUE]

SendSingleMessage(si, message, replica_id) ==
  IF is_use_long_conn_ THEN {[GetRawMessageString(message) EXCEPT !.to = replica_id]}
  ELSE SendMessageInternal(GetRawMessageString(message), NodeIds(si))

\* SendMessage(message, node_id): looked up among the replicas, then among
\* the clients; an unknown id sends nothing.
SendMessageTo(si, message, node_id) ==
  IF node_id \in Known(si) THEN SendSingleMessage(si, message, node_id) ELSE {}

\* BroadCast(message) = SendMessage(message): every replica of the roster.
BroadCast(si, message) == {[message EXCEPT !.to = r] : r \in NodeIds(si)}

\* --------------------------------------------------------------- Commitment
\* An entry point maps (topology, self, replica state, message) to the new
\* replica state, the messages sent, the return code and the branch taken.

Res(st, out, ret, path) == [st |-> st, out |-> out, ret |-> ret, path |-> path]

\* A read through a unique_ptr that was moved into AddConsensusMsg is
\* undefined: the process dies, or the read still sees the request.
UBOutcomes == {"crash", "stale"}

\* A dead process keeps no state.
Crash(s) == [NewReplicaState EXCEPT !.crashed = TRUE]

\* message_manager_->SendResponse(user_request): a RESPONSE to the proxy
\* carrying the request's seq and hash.
SendResponse(si, self, request) ==
  SendMessageTo(si, [NewRequest("RESPONSE", request, self) EXCEPT !.data = NoData],
                ProxyId)

\* Faulty variant of the executed path: line 76 (set_seq) left out.
NewRequestExecutedNoSeq(si, self, s, user_request) ==
  Res(s, SendResponse(si, self, user_request), RET_REJECT, "executed")

\* ProcessNewRequest, lines 73-79: the request was executed already.
NewRequestExecuted(si, self, s, user_request) ==
  LET seq == CheckIfExecuted(s, user_request.hash) IN
  Res(s, SendResponse(si, self, [user_request EXCEPT !.seq = seq]), RET_REJECT,
      "executed")

\* Faulty variant of the forwarding path: the forwarder also marks the hash
\* proposed.
NewRequestForwardAndMark(si, self, s, user_request) ==
  Res(AddProposed([s EXCEPT !.request_complained_ = Append(@, user_request)],
                  user_request.hash),
      SendMessageTo(si, NewRequest("NEW_REQUEST", user_request, ClientId),
                    GetPrimaryOfNode(si, self)),
      RET_FORWARDED, "forward")

\* ProcessNewRequest, lines 81-97: this replica is not its shard's coordinator.
NewRequestForward(si, self, s, user_request) ==
  Res([s EXCEPT !.request_complained_ = Append(@, user_request)],
      SendMessageTo(si, NewRequest("NEW_REQUEST", user_request, ClientId),
                    GetPrimaryOfNode(si, self)),
      RET_FORWARDED, "forward")

\* Faulty variant of the backpressure path: line 130 (EraseProposed) left out.
NewRequestSeqFailKeepMark(si, self, s, user_request) ==
  LET request == [UserRequest(ProxyId, user_request.hash, NoData, TRUE, "none")
                    EXCEPT !.type = "RESPONSE", !.sender = self, !.ret = RET_REJECT]
  IN Res(s, SendMessageTo(si, request, ProxyId), RET_REJECT, "seqfail")

\* ProcessNewRequest, lines 129-141: AssignNextSeq failed.
NewRequestSeqFail(si, self, s, user_request) ==
  LET request == [UserRequest(ProxyId, user_request.hash, NoData, TRUE, "none")
                    EXCEPT !.type = "RESPONSE", !.sender = self, !.ret = RET_REJECT]
  IN Res(EraseProposed(s, user_request.hash),
         SendMessageTo(si, request, ProxyId), RET_REJECT, "seqfail")

\* ProcessNewRequest, lines 143-157: the outer pre-prepare goes to every
\* shard's coordinator.
NewRequestPropose(si, self, s, user_request) ==
  LET s1 == AssignNextSeq(s)
      pp == [user_request EXCEPT !.type = "PRE_PREPARE", !.seq = s.next_seq,
                                 !.sender = self, !.primary_id = self,
                                 !.signed = TRUE]
  IN Res(s1,
         UNION {SendMessageTo(si, pp, GetPrimaryOfShard(si, i)) :
                  i \in 0..(GetShardCount(si) - 1)},
         RET_OK, "proposed")

\* ProcessNewRequest, lines 121-124: the duplicate filter.
NewRequestIsDuplicate(s, user_request) == IsProposed(s, user_request.hash)

\* Faulty variant of ProcessNewRequest: the executed check (lines 73-79)
\* and the proposed check (lines 122-124) left out.
ProcessNewRequestNoDedup(si, self, s, user_request) ==
  IF ~user_request.signed THEN Res(s, {}, RET_REJECT, "unsigned")
  ELSE IF self # GetPrimaryOfNode(si, self)
  THEN NewRequestForward(si, self, s, user_request)
  ELSE IF ~VerifyMessage(user_request) THEN Res(s, {}, RET_REJECT, "badsig")
  ELSE LET s1 == AddProposed(s, user_request.hash) IN
       IF ~AssignOk(s1) THEN NewRequestSeqFail(si, self, s1, user_request)
       ELSE NewRequestPropose(si, self, s1, user_request)

\* Faulty variant of ProcessNewRequest: CheckAndAddProposed (line 121) moved
\* before VerifyMessage (line 107).
ProcessNewRequestMarkFirst(si, self, s, user_request) ==
  IF ~user_request.signed THEN Res(s, {}, RET_REJECT, "unsigned")
  ELSE IF CheckIfExecuted(s, user_request.hash) # 0
  THEN NewRequestExecuted(si, self, s, user_request)
  ELSE IF self # GetPrimaryOfNode(si, self)
  THEN NewRequestForward(si, self, s, user_request)
  ELSE IF NewRequestIsDuplicate(s, user_request)
  THEN Res(s, {}, RET_REJECT, "duplicate")
  ELSE LET s1 == AddProposed(s, user_request.hash) IN
       IF ~VerifyMessage(user_request) THEN Res(s1, {}, RET_REJECT, "badsig")
       ELSE IF ~AssignOk(s1) THEN NewRequestSeqFail(si, self, s1, user_request)
       ELSE NewRequestPropose(si, self, s1, user_request)

ProcessNewRequest(si, self, s, user_request) ==
  IF ~user_request.signed THEN Res(s, {}, RET_REJECT, "unsigned")
  ELSE IF CheckIfExecuted(s, user_request.hash) # 0
  THEN NewRequestExecuted(si, self, s, user_request)
  ELSE IF self # GetPrimaryOfNode(si, self)
  THEN NewRequestForward(si, self, s, user_request)
  ELSE IF ~VerifyMessage(user_request) THEN Res(s, {}, RET_REJECT, "badsig")
  ELSE IF NewRequestIsDuplicate(s, user_request)
  THEN Res(s, {}, RET_REJECT, "duplicate")
  ELSE LET s1 == AddProposed(s, user_request.hash) IN
       IF ~AssignOk(s1) THEN NewRequestSeqFail(si, self, s1, user_request)
       ELSE NewRequestPropose(si, self, s1, user_request)

\* Ingress routing of PRE_PREPARE, PREPARE and COMMIT: a non-coordinator
\* hands a message from outside its shard to its coordinator.
MustRoute(si, self, request) ==
  /\ ~NodesInSameShard(si, request.sender, self)
  /\ self # GetPrimaryOfNode(si, self)

\* Faulty variant of the routing step: the message goes to the global
\* primary instead of the receiver's own coordinator.
RouteToPrimary(si, self, s, request) ==
  Res(s, SendMessageTo(si, request, GetCurrentPrimary(si)), RET_FORWARDED, "routed")

Route(si, self, s, request) ==
  Res(s, SendMessageTo(si, request, GetPrimaryOfShard(si, GetShardOfNode(si, self))),
      RET_FORWARDED, "routed")

RetOf(code) == IF code = "INVALID" THEN RET_REJECT ELSE RET_OK

\* The CollectorResultCode returned as an int on the recovery paths.
CodeValue(code) ==
  CASE code = "INVALID" -> -2 [] code = "OK" -> 0 [] OTHER -> 1

\* Faulty variant of the recovery admission: the sequence test of lines
\* 180-181 is left out and every recovery message is admitted.
ProposeRecoveryAnySeq(si, self, s, request) ==
  LET add == AddConsensusMsg(si, self, SetNextSeq(s, request.seq + 1), request)
  IN Res(add.st, {}, CodeValue(add.code), "recovery")

\* Recovery admission of ProcessProposeMsg, lines 179-191.
ProposeRecovery(si, self, s, request) ==
  IF GetNextSeq(s) = 0 \/ request.seq = GetNextSeq(s)
  THEN LET add == AddConsensusMsg(si, self, SetNextSeq(s, request.seq + 1), request)
       IN Res(add.st, {}, CodeValue(add.code), "recovery")
  ELSE Res(s, {}, RET_OK, "recovery-refused")

\* Line 258: the loop bound of the inner prepare broadcast is
\* GetShardOfNode(GetShardSize(GetShardOfNode(self))).
InnerPrepareBound(si, self) ==
  GetShardOfNode(si, GetShardSize(si, GetShardOfNode(si, self)))

\* The members a loop `for (i = 0; i < bound; i++) nodes[i]` reaches.
FirstMembers(si, self, bound) ==
  LET nodes == GetNodesInShard(si, GetShardOfNode(si, self))
  IN {nodes[i] : i \in 1..(IF bound < Len(nodes) THEN bound ELSE Len(nodes))}

\* ProcessProposeMsg, lines 245-261: after STATE_CHANGED the moved-from
\* request is read (seq, sender_id).
ProposeStateChanged(si, self, s, request, prepare_request, ub) ==
  IF ub = "crash" THEN Res(Crash(s), {}, RET_OK, "crash")
  ELSE IF GetTransactionState(s, request.seq) = READY_PREPARE
  THEN Res(s,
           SendMessageTo(si, prepare_request, self) \cup
             (IF request.sender # GetCurrentPrimary(si)
              THEN SendMessageTo(si, prepare_request, GetCurrentPrimary(si))
              ELSE {}),
           RET_OK, "changed-outer")
  ELSE LET bound == InnerPrepareBound(si, self)
           size == GetShardSize(si, GetShardOfNode(si, self))
       IN IF bound = UINT32_MAX \/ bound > size
          \* the index runs past the member list
          THEN Res(Crash(s),
                   UNION {SendMessageTo(si, prepare_request, n) :
                            n \in FirstMembers(si, self, size)},
                   RET_OK, "crash")
          ELSE Res(s,
                   UNION {SendMessageTo(si, prepare_request, n) :
                            n \in FirstMembers(si, self, bound)},
                   RET_OK, "changed-inner")

\* Faulty variant of ProcessProposeMsg: the sender test of lines 194-200
\* is left out.
ProcessProposeMsgAnySender(si, self, s, request, ub) ==
  IF MustRoute(si, self, request) THEN Route(si, self, s, request)
  ELSE IF ~request.signed THEN Res(s, {}, RET_REJECT, "unsigned")
  ELSE IF request.is_recovery THEN ProposeRecovery(si, self, s, request)
  ELSE IF request.sender # self /\ ~VerifyMessage(request)
  THEN Res(s, {}, RET_REJECT, "badsig")
  ELSE IF request.sender # self /\ IsProposed(s, request.hash)
  THEN Res(s, {}, RET_REJECT, "duplicate")
  ELSE LET s1 == IF request.sender # self THEN AddProposed(s, request.hash) ELSE s
           prepare_request == [NewRequest("PREPARE", request, self)
                                 EXCEPT !.data = NoData]
           add == AddConsensusMsg(si, self, s1, request)
       IN IF add.code = "STATE_CHANGED"
          THEN ProposeStateChanged(si, self, add.st, request, prepare_request, ub)
          ELSE Res(add.st, {}, RetOf(add.code),
                   IF add.code = "INVALID" THEN "invalid" ELSE "ok")

ProcessProposeMsg(si, self, s, request, ub) ==
  IF MustRoute(si, self, request) THEN Route(si, self, s, request)
  ELSE IF ~request.signed THEN Res(s, {}, RET_REJECT, "unsigned")
  ELSE IF request.is_recovery THEN ProposeRecovery(si, self, s, request)
  ELSE IF /\ request.sender # GetCurrentPrimary(si)
          /\ request.sender # GetPrimaryOfNode(si, self)
  THEN Res(s, {}, RET_REJECT, "authority")
  ELSE IF request.sender # self /\ ~VerifyMessage(request)
  THEN Res(s, {}, RET_REJECT, "badsig")
  ELSE IF request.sender # self /\ IsProposed(s, request.hash)
  THEN Res(s, {}, RET_REJECT, "duplicate")
  ELSE LET s1 == IF request.sender # self THEN AddProposed(s, request.hash) ELSE s
           prepare_request == [NewRequest("PREPARE", request, self)
                                 EXCEPT !.data = NoData]
           add == AddConsensusMsg(si, self, s1, request)
       IN IF add.code = "STATE_CHANGED"
          THEN ProposeStateChanged(si, self, add.st, request, prepare_request, ub)
          ELSE Res(add.st, {}, RetOf(add.code),
                   IF add.code = "INVALID" THEN "invalid" ELSE "ok")

\* ProcessPrepareMsg, lines 296-328: seq_ and commit_request were taken
\* before the request was moved.
PrepareStateChanged(si, self, s, seq_, commit_request) ==
  LET s1 == IF s.highest_prepared_seq < seq_
            THEN [s EXCEPT !.highest_prepared_seq = seq_] ELSE s
      signed_commit == IF need_qc_ THEN [commit_request EXCEPT !.dsig = "qc"]
                       ELSE commit_request
  IN IF GetTransactionState(s1, seq_) = READY_COMMIT
     THEN IF self = GetCurrentPrimary(si)
          THEN Res(s1, BroadCast(si, signed_commit), RET_OK, "changed-outer")
          ELSE Res(s1, {}, RET_OK, "changed-outer")
     ELSE Res(s1,
              UNION {SendMessageTo(si, signed_commit, n) :
                       n \in FirstMembers(si, self,
                                          GetShardSize(si, GetShardOfNode(si, self)))},
              RET_OK, "changed-inner")

ProcessPrepareMsg(si, self, s, request) ==
  IF MustRoute(si, self, request) THEN Route(si, self, s, request)
  ELSE IF ~request.signed THEN Res(s, {}, RET_REJECT, "unsigned")
  ELSE IF request.is_recovery
  THEN LET add == AddConsensusMsg(si, self, s, request)
       IN Res(add.st, {}, CodeValue(add.code), "recovery")
  ELSE LET commit_request == [NewRequest("COMMIT", request, self)
                                EXCEPT !.dsig = "none"]
           seq_ == request.seq
           add == AddConsensusMsg(si, self, s, request)
       IN IF add.code = "STATE_CHANGED"
          THEN PrepareStateChanged(si, self, add.st, seq_, commit_request)
          ELSE Res(add.st, {}, RetOf(add.code),
                   IF add.code = "INVALID" THEN "invalid" ELSE "ok")

\* ProcessCommitMsg, lines 362-387: after STATE_CHANGED the moved-from
\* request is read (seq) and copied into the inner pre-prepare and prepare.
CommitStateChanged(si, self, s, request, ub) ==
  IF ub = "crash" THEN Res(Crash(s), {}, RET_OK, "crash")
  ELSE IF GetTransactionState(s, request.seq) = READY_EXECUTE
  THEN Res(s, {}, RET_OK, "changed-inner")
  ELSE LET propose_request == NewRequest("PRE_PREPARE", request, self)
           prepare_request == NewRequest("PREPARE", request, self)
           members == FirstMembers(si, self,
                                   GetShardSize(si, GetShardOfNode(si, self)))
       IN Res(s,
              UNION {SendMessageTo(si, propose_request, n) : n \in members \ {self}}
                \cup UNION {SendMessageTo(si, prepare_request, n) : n \in members},
              RET_OK, "changed-outer")

ProcessCommitMsg(si, self, s, request, ub) ==
  IF MustRoute(si, self, request) THEN Route(si, self, s, request)
  ELSE IF ~request.signed THEN Res(s, {}, RET_REJECT, "unsigned")
  ELSE IF request.is_recovery
  THEN LET add == AddConsensusMsg(si, self, s, request)
       IN Res(add.st, {}, CodeValue(add.code), "recovery")
  ELSE LET add == AddConsensusMsg(si, self, s, request)
       IN IF add.code = "STATE_CHANGED"
          THEN CommitStateChanged(si, self, add.st, request, ub)
          ELSE Res(add.st, {}, RetOf(add.code),
                   IF add.code = "INVALID" THEN "invalid" ELSE "ok")

\* The execution collaborator applies the batches in seq order; an applied
\* batch is marked executed and queued for the response worker.
CanExecute(s) ==
  LET slot == SlotOf(s, s.last_exec + 1)
  IN slot.level = "inner" /\ slot.phase = "READY_EXECUTE"

ExecuteNext(s) ==
  LET seq == s.last_exec + 1
      slot == SlotOf(s, seq)
      s1 == PutSlot(s, seq, [slot EXCEPT !.phase = "EXECUTED"])
      s2 == MarkExecuted(s1, slot.hash, seq)
  IN [s2 EXCEPT !.last_exec = seq,
                !.resp_queue = Append(@, [seq |-> seq, hash |-> slot.hash,
                                          data |-> slot.data,
                                          primary_id |-> slot.primary_id])]

\* PostProcessExecutedMsg, lines 397-414: one batch taken from GetResponseMsg.
PostProcessOne(si, self, s) ==
  LET batch_resp == Head(s.resp_queue)
      request == [UserRequest(ProxyId, batch_resp.hash, batch_resp.data, TRUE, "none")
                    EXCEPT !.type = "RESPONSE", !.seq = batch_resp.seq,
                           !.sender = self, !.primary_id = batch_resp.primary_id]
  IN Res([s EXCEPT !.resp_queue = Tail(@)],
         IF NodesInSameShard(si, batch_resp.primary_id, self)
         THEN SendMessageTo(si, request, ProxyId) ELSE {},
         RET_OK, "response")

\* ---------------------------------------------------------------- scenarios
\* A deployment: the shard count, the order in which the replicas were
\* added, the replicas a client proxy submits to and how many submissions it
\* makes.  S1 and S3 are the one-transaction scenarios of the specification;
\* S6 is two shards, {2, 3} and {1}, with one submission to the global
\* primary 1, so that member 3 sees traffic from the other shard; G is a
\* two-shard deployment open to any submissions; S7 is the deployment of S6
\* with one submission to the global primary or to member 3.

Scenario(name) ==
  CASE name = "S1" -> [shards |-> 1, order |-> <<1, 2, 3, 4>>, targets |-> {2},
                       requests |-> 1]
    [] name = "S3" -> [shards |-> 3,
                       order |-> <<1, 5, 9, 2, 6, 10, 3, 7, 11, 4, 8, 12>>,
                       targets |-> {7}, requests |-> 1]
    [] name = "S6" -> [shards |-> 2, order |-> <<2, 1, 3>>, targets |-> {1},
                       requests |-> 1]
    [] name = "S7" -> [shards |-> 2, order |-> <<2, 1, 3>>, targets |-> {1, 3},
                       requests |-> 1]
    [] OTHER -> [shards |-> 2, order |-> <<1, 2>>, targets |-> {1, 2},
                 requests |-> MaxRequests]

ScenarioNames == {"S1", "S3", "S6", "G"}

\* ------------------------------------------------------------ state machine

VARIABLES
  scen,    \* the deployment
  sys,     \* the SystemInfo every replica holds
  rep,     \* replica id -> replica state
  net,     \* messages handed to a connection and not yet received
  proxy,   \* bag of the RESPONSE messages sent to the client proxy
  nreq,    \* number of client submissions (and faulty deliveries) so far
  last,    \* the last entry-point call: who, what, result
  topo,    \* a SystemInfo object driven through its public operations
  comm,    \* a ReplicaCommunicator object and the connections it writes to
  thr      \* a SystemInfo object shared by threads, and where each thread is

vars == <<scen, sys, rep, net, proxy, nreq, last, topo, comm, thr>>

NoMsg == UserRequest(0, "", NoData, FALSE, "none")

\* The SystemInfo under test: the object `si`, the last operation `op` with
\* its argument `arg` and the object `before` it, the number `n` of
\* operations so far, and whether every operation since the last
\* SetShardCount(S), S >= 1, was an AddReplica (`adds_only`).
TopoState(si, before, op, arg, n, adds_only) ==
  [si |-> si, before |-> before, op |-> op, arg |-> arg, n |-> n,
   adds_only |-> adds_only]

TopoIdle == TopoState(SystemInfoCtor, SystemInfoCtor, "none", 0, 0, FALSE)

\* The ReplicaCommunicator under test.  Messages are named by the position
\* of their send in `issued`; `wire[d]` is what was written to the connection
\* to d, in order.  `is_running_` is the stop flag, `dtor` the statement the
\* destructor has reached, `exited` the worker threads that left their loop
\* (0: the broadcast thread, d: the thread of destination d), `smutex_` the
\* thread holding that mutex (0: free) and `caller[t]` where thread t is in
\* SendSingleMessage.
Peers == 1..MaxPeers

BroadcastWorker == 0

Comm_Ctor(is_use_long_conn) ==
  [is_use_long_conn_ |-> is_use_long_conn,
   replicas_ |-> Peers, clients_ |-> {ProxyId},
   batch_queue_ |-> <<>>, single_bq_ |-> EmptyMap,
   wire |-> [d \in Peers \cup {ProxyId} |-> <<>>],
   issued |-> <<>>,
   is_running_ |-> TRUE, dtor |-> "none", exited |-> {},
   smutex_ |-> 0,
   caller |-> [t \in 1..MaxThreads |-> [pc |-> "idle", to |-> 0]]]

CommIdle == Comm_Ctor(FALSE)

\* A SystemInfo object `si` (built as `init`) and the threads inside its
\* AddReplica: the statement each is at (`pc`), its argument, the local
\* `target` of the search, what a query last observed (`seen`), and
\* whether unsynchronised accesses have corrupted a container (`corrupt`).
Threads == 1..MaxThreads

\* What the getters show of a SystemInfo: GetReplicas, GetShardOfNode,
\* GetNodesInShard and GetPrimaryOfShard over its nodes and shards.
Snapshot(si) ==
  [replicas |-> si.replicas_,
   shard_of |-> [n \in 1..MaxNodes |-> GetShardOfNode(si, n)],
   nodes_in |-> [s \in 0..(si.shard_count_ - 1) |-> GetNodesInShard(si, s)],
   primary_of |-> [s \in 0..(si.shard_count_ - 1) |-> GetPrimaryOfShard(si, s)]]

\* The same threads as ingress threads inside ProcessPrepareMsg:
\* `highest_prepared_seq_` of the replica's MessageManager, where each thread
\* is (`prep`, with its local seq_) and the sequence numbers of the calls
\* that got STATE_CHANGED and have returned (`changed`).
ThreadsOn(si) ==
  [si |-> si, init |-> si,
   pc |-> [t \in Threads |-> "idle"],
   arg |-> [t \in Threads |-> ReplicaInfo(0)],
   target |-> [t \in Threads |-> 0],
   seen |-> Snapshot(si), corrupt |-> FALSE,
   highest_prepared_seq_ |-> 0,
   prep |-> [t \in Threads |-> [pc |-> "idle", seq_ |-> 0]],
   changed |-> {}]

ThreadsIdle == ThreadsOn(SystemInfoCtor)

Init ==
  /\ topo = TopoIdle
  /\ comm = CommIdle
  /\ thr = ThreadsIdle
  /\ scen \in ScenarioNames
  /\ sys = Bootstrap(Scenario(scen).shards, Scenario(scen).order)
  /\ rep = [r \in NodeIds(sys) |-> NewReplicaState]
  /\ net = {}
  /\ proxy = EmptyBag
  /\ nreq = 0
  /\ last = [op |-> "init", self |-> 0, msg |-> NoMsg, ret |-> 0, path |-> "",
             out |-> {}]

\* The effect of one entry-point call of replica `self` on message `m`.
Apply(op, self, m, res) ==
  /\ rep' = [rep EXCEPT ![self] = res.st]
  /\ net' = {x \in (net \ {m}) \cup res.out :
               /\ x.to # ProxyId
               \* a connection to a dead process delivers nothing
               /\ ~(res.st.crashed /\ x.to = self)
               /\ ~rep[x.to].crashed}
  /\ proxy' = proxy (+) SetToBag({x \in res.out : x.to = ProxyId})
  /\ last' = [op |-> op, self |-> self, msg |-> m, ret |-> res.ret,
              path |-> res.path, out |-> res.out]
  /\ UNCHANGED <<scen, sys, topo, comm, thr>>

Alive(r) == r \in DOMAIN rep /\ ~rep[r].crashed

\* What a client proxy submits: two well-formed signed requests, one without
\* a context signature, one whose data signature does not verify.
ClientInputs ==
  {[hash |-> "H1", data |-> "D1", signed |-> TRUE, dsig |-> "ok"],
   [hash |-> "H2", data |-> "D2", signed |-> TRUE, dsig |-> "ok"],
   [hash |-> "H1", data |-> "D1", signed |-> FALSE, dsig |-> "ok"],
   [hash |-> "H2", data |-> "D2", signed |-> TRUE, dsig |-> "bad"]}

\* The client proxy submits a request to a replica.
ClientRequest(r, hash, data, signed, dsig) ==
  /\ nreq < Scenario(scen).requests
  /\ Alive(r)
  /\ nreq' = nreq + 1
  /\ LET m == UserRequest(r, hash, data, signed, dsig)
     IN Apply("NewRequest", r, m, ProcessNewRequest(sys, r, rep[r], m))

\* A forwarded client request arrives at the coordinator.
RecvNewRequest(m) ==
  /\ m \in net /\ m.type = "NEW_REQUEST" /\ Alive(m.to)
  /\ Apply("NewRequest", m.to, m, ProcessNewRequest(sys, m.to, rep[m.to], m))
  /\ UNCHANGED nreq

RecvPropose(m, ub) ==
  /\ m \in net /\ m.type = "PRE_PREPARE" /\ Alive(m.to)
  /\ Apply("Propose", m.to, m, ProcessProposeMsg(sys, m.to, rep[m.to], m, ub))
  /\ UNCHANGED nreq

RecvPrepare(m) ==
  /\ m \in net /\ m.type = "PREPARE" /\ Alive(m.to)
  /\ Apply("Prepare", m.to, m, ProcessPrepareMsg(sys, m.to, rep[m.to], m))
  /\ UNCHANGED nreq

RecvCommit(m, ub) ==
  /\ m \in net /\ m.type = "COMMIT" /\ Alive(m.to)
  /\ Apply("Commit", m.to, m, ProcessCommitMsg(sys, m.to, rep[m.to], m, ub))
  /\ UNCHANGED nreq

\* A consensus message in flight reaches, instead of its addressee, a
\* non-coordinator outside the sender's shard (the misrouted message of
\* scenario S6).
RecvMisrouted(m, r) ==
  /\ m \in net /\ m.type \in {"PRE_PREPARE", "PREPARE", "COMMIT"}
  /\ Alive(r) /\ r # m.to /\ MustRoute(sys, r, m)
  /\ LET res == CASE m.type = "PRE_PREPARE" -> ProcessProposeMsg(sys, r, rep[r], m, "stale")
                   [] m.type = "PREPARE" -> ProcessPrepareMsg(sys, r, rep[r], m)
                   [] OTHER -> ProcessCommitMsg(sys, r, rep[r], m, "stale")
     IN Apply("Misrouted", r, m, res)
  /\ UNCHANGED nreq

Execute(r) ==
  /\ Alive(r) /\ CanExecute(rep[r])
  /\ Apply("Execute", r, NoMsg, Res(ExecuteNext(rep[r]), {}, RET_OK, "executed"))
  /\ UNCHANGED nreq

PostProcessExecutedMsg(r) ==
  /\ Alive(r) /\ rep[r].resp_queue # <<>>
  /\ Apply("PostProcess", r, NoMsg, PostProcessOne(sys, r, rep[r]))
  /\ UNCHANGED nreq

Next ==
  \/ \E r \in Scenario(scen).targets, q \in ClientInputs :
       ClientRequest(r, q.hash, q.data, q.signed, q.dsig)
  \/ \E m \in net : RecvNewRequest(m)
  \/ \E m \in net, ub \in UBOutcomes : RecvPropose(m, ub)
  \/ \E m \in net : RecvPrepare(m)
  \/ \E m \in net, ub \in UBOutcomes : RecvCommit(m, ub)
  \/ \E m \in net, r \in DOMAIN rep : RecvMisrouted(m, r)
  \/ \E r \in DOMAIN rep : Execute(r)
  \/ \E r \in DOMAIN rep : PostProcessExecutedMsg(r)

Spec == Init /\ [][Next]_vars

\* --------------------------------------------------- faulty-ingress machine
\* The replication machine of scenario S7 with a faulty peer and a faulty
\* client: a consensus message in flight may reach any replica, with or
\* without a context signature, and the client may submit a request whose
\* hash field is not the digest of its data.

IngressScenarios == {"S7"}

ForgedInputs ==
  {[hash |-> "H2", data |-> "D1", signed |-> TRUE, dsig |-> "ok"]}

IngressInit ==
  /\ topo = TopoIdle
  /\ comm = CommIdle
  /\ thr = ThreadsIdle
  /\ scen \in IngressScenarios
  /\ sys = Bootstrap(Scenario(scen).shards, Scenario(scen).order)
  /\ rep = [r \in NodeIds(sys) |-> NewReplicaState]
  /\ net = {}
  /\ proxy = EmptyBag
  /\ nreq = 0
  /\ last = [op |-> "init", self |-> 0, msg |-> NoMsg, ret |-> 0, path |-> "",
             out |-> {}]

\* The copy of m that a faulty peer puts on the connection to r.
RecvFaulty(m, r, signed, ub) ==
  /\ m \in net /\ m.type \in {"PRE_PREPARE", "PREPARE", "COMMIT"}
  /\ Alive(r)
  /\ nreq < Scenario(scen).requests + MaxFaulty
  /\ nreq' = nreq + 1
  /\ LET f == [m EXCEPT !.signed = signed]
         res == CASE m.type = "PRE_PREPARE" -> ProcessProposeMsg(sys, r, rep[r], f, ub)
                  [] m.type = "PREPARE" -> ProcessPrepareMsg(sys, r, rep[r], f)
                  [] OTHER -> ProcessCommitMsg(sys, r, rep[r], f, ub)
     IN /\ rep' = [rep EXCEPT ![r] = res.st]
        /\ net' = {x \in (net \ {m}) \cup res.out :
                     /\ x.to # ProxyId
                     /\ ~(res.st.crashed /\ x.to = r)
                     /\ ~rep[x.to].crashed}
        /\ proxy' = proxy (+) SetToBag({x \in res.out : x.to = ProxyId})
        /\ last' = [op |-> "Faulty", self |-> r, msg |-> f, ret |-> res.ret,
                    path |-> res.path, out |-> res.out]
  /\ UNCHANGED <<scen, sys, topo, comm, thr>>

IngressNext ==
  \/ \E r \in Scenario(scen).targets, q \in ClientInputs \cup ForgedInputs :
       ClientRequest(r, q.hash, q.data, q.signed, q.dsig)
  \/ \E m \in net : RecvNewRequest(m)
  \/ \E m \in net, ub \in UBOutcomes : RecvPropose(m, ub)
  \/ \E m \in net : RecvPrepare(m)
  \/ \E m \in net, ub \in UBOutcomes : RecvCommit(m, ub)
  \/ \E m \in net, r \in DOMAIN rep, signed \in BOOLEAN, ub \in UBOutcomes :
       RecvFaulty(m, r, signed, ub)
  \/ \E r \in DOMAIN rep : Execute(r)
  \/ \E r \in DOMAIN rep : PostProcessExecutedMsg(r)

IngressSpec == IngressInit /\ [][IngressNext]_vars

\* ---------------------------------------------------------- recovery machine
\* The replication machine of scenario S6 in which replicas also receive
\* PRE_PREPARE messages with is_recovery set, as replayed to a replica that
\* resynchronizes: any seq up to MaxRecoverySeq, either batch, any replica as
\* sender, with or without a context signature.

RecoveryScenarios == {"S6"}

\* The client submits one well-formed request to the global primary, so no
\* NEW_REQUEST is forwarded.
RecoveryInputs == {q \in ClientInputs : q.hash = "H1" /\ q.signed /\ q.dsig = "ok"}

RecoveryInit ==
  /\ topo = TopoIdle
  /\ comm = CommIdle
  /\ thr = ThreadsIdle
  /\ scen \in RecoveryScenarios
  /\ sys = Bootstrap(Scenario(scen).shards, Scenario(scen).order)
  /\ rep = [r \in NodeIds(sys) |-> NewReplicaState]
  /\ net = {}
  /\ proxy = EmptyBag
  /\ nreq = 0
  /\ last = [op |-> "init", self |-> 0, msg |-> NoMsg, ret |-> 0, path |-> "",
             out |-> {}]

RecoveryRequest(to, seq, hash, sender, signed) ==
  [type |-> "PRE_PREPARE", seq |-> seq, hash |-> hash,
   data |-> IF hash = "H1" THEN "D1" ELSE "D2", dsig |-> "ok",
   sender |-> sender, primary_id |-> GetCurrentPrimary(sys),
   is_recovery |-> TRUE, signed |-> signed, to |-> to, ret |-> 0]

RecvRecovery(r, seq, hash, sender, signed) ==
  /\ Alive(r)
  /\ nreq < Scenario(scen).requests + MaxRecovery
  /\ nreq' = nreq + 1
  /\ LET m == RecoveryRequest(r, seq, hash, sender, signed)
     IN Apply("Recovery", r, m, ProcessProposeMsg(sys, r, rep[r], m, "stale"))

RecoveryNext ==
  \/ \E r \in Scenario(scen).targets, q \in RecoveryInputs :
       ClientRequest(r, q.hash, q.data, q.signed, q.dsig)
  \/ \E m \in net, ub \in UBOutcomes : RecvPropose(m, ub)
  \/ \E m \in net : RecvPrepare(m)
  \/ \E m \in net, ub \in UBOutcomes : RecvCommit(m, ub)
  \/ \E r \in DOMAIN rep, seq \in 1..MaxRecoverySeq, hash \in Hashes,
        sender \in DOMAIN rep, signed \in BOOLEAN :
       RecvRecovery(r, seq, hash, sender, signed)
  \/ \E r \in DOMAIN rep : Execute(r)
  \/ \E r \in DOMAIN rep : PostProcessExecutedMsg(r)

RecoverySpec == RecoveryInit /\ [][RecoveryNext]_vars

\* ------------------------------------------------- topology state machine
\* One SystemInfo object and the callers of its public operations; the
\* replication machine is at rest.

\* What AddReplica is called with: well-formed entries, and entries with id
\* 0, an empty ip or port 0.
ReplicaInputs ==
  {ReplicaInfo(i) : i \in 1..MaxNodes} \cup
  {ReplicaInfo(0), [ReplicaInfo(MaxNodes) EXCEPT !.ip = ""],
   [ReplicaInfo(MaxNodes) EXCEPT !.port = 0]}

Malformed(replica) == replica.id = 0 \/ replica.ip = "" \/ replica.port = 0

\* Replica lists of a config or a SetReplicas call.
ReplicaLists ==
  {<<>>, <<ReplicaInfo(1)>>, <<ReplicaInfo(2), ReplicaInfo(1)>>}

ShardCounts == 0..MaxShards

Resting ==
  /\ scen = "S1"
  /\ sys = Bootstrap(Scenario(scen).shards, Scenario(scen).order)
  /\ rep = [r \in NodeIds(sys) |-> NewReplicaState]
  /\ net = {}
  /\ proxy = EmptyBag
  /\ nreq = 0
  /\ last = [op |-> "init", self |-> 0, msg |-> NoMsg, ret |-> 0, path |-> "",
             out |-> {}]

TopoInit ==
  /\ Resting
  /\ comm = CommIdle
  /\ thr = ThreadsIdle
  /\ \E garbage \in ShardCounts :
       \/ topo = TopoState(SystemInfoDefault(garbage), SystemInfoDefault(garbage),
                           "SystemInfo", <<>>, 0, FALSE)
       \/ \E l \in ReplicaLists \ {<<>>} :
            topo = TopoState(SystemInfoFromConfig(l, garbage),
                             SystemInfoFromConfig(l, garbage),
                             "SystemInfo", l, 0, FALSE)

TopoStep(op, arg, si, adds_only) ==
  /\ topo.n < MaxTopoOps
  /\ topo' = TopoState(si, topo.si, op, arg, topo.n + 1, adds_only)
  /\ UNCHANGED <<scen, sys, rep, net, proxy, nreq, last, comm, thr>>

CallSetReplicas(l) ==
  TopoStep("SetReplicas", l, SetReplicas(topo.si, l), FALSE)

CallSetShardCount(count) ==
  TopoStep("SetShardCount", count, SetShardCount(topo.si, count), count >= 1)

CallAddReplica(replica) ==
  TopoStep("AddReplica", replica, AddReplica(topo.si, replica), topo.adds_only)

TopoNext ==
  \/ \E l \in ReplicaLists : CallSetReplicas(l)
  \/ \E count \in ShardCounts : CallSetShardCount(count)
  \/ \E replica \in ReplicaInputs : CallAddReplica(replica)

TopoSpec == TopoInit /\ [][TopoNext]_vars

\* ------------------------------------------------ transport state machine
\* One ReplicaCommunicator, the thread that issues its sends, its broadcast
\* thread and its per-destination threads; the replication machine is at rest.

RECURSIVE WriteAll(_, _)
WriteAll(line, batch) ==
  IF batch = <<>> THEN line
  ELSE WriteAll(Append(line, Head(batch)), Tail(batch))

\* SendMessageFromPool: under mutex_, the batch is written to the pooled
\* connection of every listed replica.
Comm_SendMessageFromPool(c, batch, replicas) ==
  [c EXCEPT !.wire = [d \in DOMAIN @ |->
                        IF d \in replicas THEN WriteAll(@[d], batch) ELSE @[d]]]

\* SendMessageInternal: the message is written to a fresh connection to
\* every listed replica.
Comm_SendMessageInternal(c, message, replicas) ==
  [c EXCEPT !.wire = [d \in DOMAIN @ |->
                        IF d \in replicas THEN Append(@[d], message) ELSE @[d]]]

\* SendSingleMessage: queued for the destination's thread in long-connection
\* mode; otherwise SendMessageInternal(message, replicas_).
Comm_SendSingleMessage(c, message, replica_info) ==
  IF c.is_use_long_conn_
  THEN [c EXCEPT !.single_bq_ =
          IF replica_info \in DOMAIN @
          THEN [@ EXCEPT ![replica_info] = Append(@, message)]
          ELSE (replica_info :> <<message>>) @@ @]
  ELSE Comm_SendMessageInternal(c, message, c.replicas_)

\* SendMessage(message): the broadcast.
Comm_SendMessage(c, message) ==
  IF c.is_use_long_conn_
  THEN [c EXCEPT !.batch_queue_ = Append(@, message)]
  ELSE Comm_SendMessageInternal(c, message, c.replicas_)

\* SendMessage(message, node_id): the id is looked up among replicas_, then
\* clients_; an unknown id sends nothing.
Comm_SendMessageTo(c, message, node_id) ==
  IF node_id \in c.replicas_ \cup c.clients_
  THEN Comm_SendSingleMessage(c, message, node_id)
  ELSE c

RECURSIVE Comm_SendEach(_, _, _)
Comm_SendEach(c, messages, replica_info) ==
  IF messages = <<>> THEN c
  ELSE Comm_SendEach(Comm_SendMessageInternal(c, Head(messages), {replica_info}),
                     Tail(messages), replica_info)

\* SendBatchMessage: written by the caller itself, in both modes.
Comm_SendBatchMessage(c, messages, replica_info) ==
  IF c.is_use_long_conn_
  THEN Comm_SendMessageFromPool(c, messages, {replica_info})
  ELSE Comm_SendEach(c, messages, replica_info)

\* The send that issued message i was addressed to d.
SentTo(c, i, d) ==
  \/ c.issued[i].kind = "broadcast" /\ d \in c.replicas_
  \/ c.issued[i].kind # "broadcast" /\ c.issued[i].to = d

TransInit ==
  /\ Resting
  /\ topo = TopoIdle
  /\ thr = ThreadsIdle
  /\ \E is_use_long_conn \in BOOLEAN : comm = Comm_Ctor(is_use_long_conn)

\* The issuing thread makes a send of `count` messages.
Issue(kind, to, count, c) ==
  /\ Len(comm.issued) + count <= MaxSends
  /\ comm' = [c EXCEPT !.issued = @ \o [i \in 1..count |-> [kind |-> kind, to |-> to]]]
  /\ UNCHANGED <<scen, sys, rep, net, proxy, nreq, last, topo, thr>>

NextMessage == Len(comm.issued) + 1

CallSendMessage ==
  Issue("broadcast", 0, 1, Comm_SendMessage(comm, NextMessage))

CallSendMessageInfo(d) ==
  Issue("unicast", d, 1, Comm_SendSingleMessage(comm, NextMessage, d))

CallSendMessageId(node_id) ==
  Issue("by_id", node_id, 1, Comm_SendMessageTo(comm, NextMessage, node_id))

CallSendBatchMessage(d, count) ==
  Issue("batch", d, count,
        Comm_SendBatchMessage(comm, [i \in 1..count |-> Len(comm.issued) + i], d))

\* The broadcast thread pops a batch and writes it to every replica.
BroadcastThread(k) ==
  /\ k \in 1..Len(comm.batch_queue_)
  /\ comm' = Comm_SendMessageFromPool(
                [comm EXCEPT !.batch_queue_ = SubSeq(@, k + 1, Len(@))],
                SubSeq(comm.batch_queue_, 1, k), comm.replicas_)
  /\ UNCHANGED <<scen, sys, rep, net, proxy, nreq, last, topo, thr>>

\* The thread of destination d pops a batch and writes it to d.
SingleThread(d, k) ==
  /\ d \in DOMAIN comm.single_bq_
  /\ k \in 1..Len(comm.single_bq_[d])
  /\ comm' = Comm_SendMessageFromPool(
                [comm EXCEPT !.single_bq_[d] = SubSeq(@, k + 1, Len(@))],
                SubSeq(comm.single_bq_[d], 1, k), {d})
  /\ UNCHANGED <<scen, sys, rep, net, proxy, nreq, last, topo, thr>>

TransNext ==
  \/ CallSendMessage
  \/ \E d \in Peers \cup {ProxyId} : CallSendMessageInfo(d)
  \/ \E node_id \in Peers \cup {ProxyId, 0} : CallSendMessageId(node_id)
  \/ \E d \in Peers, count \in 1..2 : CallSendBatchMessage(d, count)
  \/ \E k \in 1..MaxSends : BroadcastThread(k)
  \/ \E d \in Peers \cup {ProxyId}, k \in 1..MaxSends : SingleThread(d, k)

TransSpec == TransInit /\ [][TransNext]_vars

\* ------------------------------------------- SystemInfo shared by threads
\* AddReplica and AddReplicaToShard take no lock (the class has no mutex), so
\* the statements of concurrent calls interleave.  Each action below is one
\* statement of system_info.cpp; two unsynchronised accesses to one container
\* are a data race, whose outcome is the interleaved one or a corrupted
\* container.

RaceOutcomes == {"interleaved", "corrupt"}

\* Thread t is between its first read and its last write of the containers.
Inside(t) == thr.pc[t] \notin {"idle", "done"}

Racing(t) == \E u \in Threads \ {t} : Inside(u)

RaceInit ==
  /\ Resting
  /\ topo = TopoIdle
  /\ comm = CommIdle
  /\ \E count \in 1..MaxShards : thr = ThreadsOn(SetShardCount(SystemInfoCtor, count))

RaceStep(t, pc, si, target, outcome) ==
  /\ ~thr.corrupt
  /\ outcome = "corrupt" => Racing(t)
  /\ thr' = [thr EXCEPT !.pc[t] = pc, !.si = si, !.target[t] = target,
                        !.corrupt = (outcome = "corrupt")]
  /\ UNCHANGED <<scen, sys, rep, net, proxy, nreq, last, topo, comm>>

\* A thread calls AddReplica(replica).
Enter(t, replica) ==
  /\ thr.pc[t] = "idle" /\ ~thr.corrupt
  /\ thr' = [thr EXCEPT !.pc[t] = "check", !.arg[t] = replica]
  /\ UNCHANGED <<scen, sys, rep, net, proxy, nreq, last, topo, comm>>

\* Lines 49-57: the validity test and the look-up of the id in replicas_.
Check(t) ==
  /\ thr.pc[t] = "check"
  /\ RaceStep(t, IF Malformed(thr.arg[t]) \/ thr.arg[t].id \in NodeIds(thr.si)
                 THEN "done" ELSE "search",
              thr.si, 0, "interleaved")

\* Lines 129-144: the shard-count test and the least-loaded search, whose
\* shard_to_nodes_[i] inserts the missing keys.
Search(t, outcome) ==
  /\ thr.pc[t] = "search"
  /\ IF thr.si.shard_count_ = 0
     THEN RaceStep(t, "done", thr.si, 0, "interleaved")
     ELSE LET stn == TouchShards(thr.si) IN
          RaceStep(t, "push", [thr.si EXCEPT !.shard_to_nodes_ = stn],
                   FindTarget(stn, 0, thr.si.shard_count_, 0, SIZE_MAX), outcome)

\* Line 146: replicas_.push_back(replica).
Push(t, outcome) ==
  /\ thr.pc[t] = "push"
  /\ RaceStep(t, "assign", [thr.si EXCEPT !.replicas_ = Append(@, thr.arg[t])],
              thr.target[t], outcome)

\* Line 149: node_to_shard_[replica.id()] = target.
Assign(t, outcome) ==
  /\ thr.pc[t] = "assign"
  /\ RaceStep(t, "list",
              [thr.si EXCEPT !.node_to_shard_ = (thr.arg[t].id :> thr.target[t]) @@ @],
              thr.target[t], outcome)

\* Line 152: shard_to_nodes_[target].push_back(replica.id()).
List(t, outcome) ==
  /\ thr.pc[t] = "list"
  /\ RaceStep(t, "primary",
              [thr.si EXCEPT !.shard_to_nodes_[thr.target[t]] = Append(@, thr.arg[t].id)],
              thr.target[t], outcome)

\* Lines 155-157: the first node of a shard becomes its primary.
Primary(t, outcome) ==
  /\ thr.pc[t] = "primary"
  /\ RaceStep(t, "done",
              [thr.si EXCEPT !.shard_primaries_ =
                 IF thr.target[t] \in DOMAIN @ THEN @
                 ELSE (thr.target[t] :> thr.arg[t].id) @@ @],
              thr.target[t], outcome)

\* Another thread reads the topology (GetReplicas, GetShardOfNode,
\* GetNodesInShard, GetPrimaryOfShard), here all at one instant.
Query ==
  /\ ~thr.corrupt /\ thr.seen # Snapshot(thr.si)
  /\ thr' = [thr EXCEPT !.seen = Snapshot(thr.si)]
  /\ UNCHANGED <<scen, sys, rep, net, proxy, nreq, last, topo, comm>>

RaceNext ==
  \/ \E t \in Threads, i \in 1..MaxNodes : Enter(t, ReplicaInfo(i))
  \/ \E t \in Threads : Check(t)
  \/ \E t \in Threads, outcome \in RaceOutcomes : Search(t, outcome)
  \/ \E t \in Threads, outcome \in RaceOutcomes : Push(t, outcome)
  \/ \E t \in Threads, outcome \in RaceOutcomes : Assign(t, outcome)
  \/ \E t \in Threads, outcome \in RaceOutcomes : List(t, outcome)
  \/ \E t \in Threads, outcome \in RaceOutcomes : Primary(t, outcome)
  \/ Query

RaceSpec == RaceInit /\ [][RaceNext]_vars

\* ------------------------------------------------- transport shutdown machine
\* The transport machine with the destructor of the communicator: the sends
\* stop when destruction begins, the workers run while they see the flag set.

\* The worker threads that were started.
Workers(c) == {BroadcastWorker} \cup DOMAIN c.single_bq_

\* Before destruction the issuing thread sends as in the transport machine.
ShutSend ==
  /\ comm.dtor = "none"
  /\ \/ CallSendMessage
     \/ \E d \in Peers \cup {ProxyId} : CallSendMessageInfo(d)
     \/ \E d \in Peers, count \in 1..2 : CallSendBatchMessage(d, count)

\* One iteration of a worker loop that found the flag set.
ShutBroadcastThread(k) ==
  /\ comm.is_running_ /\ BroadcastWorker \notin comm.exited
  /\ BroadcastThread(k)

ShutSingleThread(d, k) ==
  /\ comm.is_running_ /\ d \notin comm.exited
  /\ SingleThread(d, k)

\* A worker finds the flag cleared at the head of its loop and returns.
WorkerExit(w) ==
  /\ comm.dtor # "terminate"
  /\ ~comm.is_running_ /\ w \in Workers(comm) \ comm.exited
  /\ comm' = [comm EXCEPT !.exited = @ \cup {w}]
  /\ UNCHANGED <<scen, sys, rep, net, proxy, nreq, last, topo, thr>>

DtorStep(c) ==
  /\ comm' = c
  /\ UNCHANGED <<scen, sys, rep, net, proxy, nreq, last, topo, thr>>

\* Line 53.
DtorStop ==
  /\ comm.dtor = "none"
  /\ DtorStep([comm EXCEPT !.is_running_ = FALSE, !.dtor = "stopped"])

\* Lines 54-56: returns once the broadcast thread has returned.
DtorJoinBroadcast ==
  /\ comm.dtor = "stopped" /\ BroadcastWorker \in comm.exited
  /\ DtorStep([comm EXCEPT !.dtor = "joined"])

\* Lines 57-69: in long-connection mode the pooled connections are reset.
DtorClose ==
  /\ comm.dtor = "joined"
  /\ DtorStep([comm EXCEPT !.dtor = IF comm.is_use_long_conn_ THEN "closed"
                                    ELSE "members"])

\* Line 70, destruction of the members: single_thread_ holds the threads of
\* the destinations, none of them joined or detached; destroying a joinable
\* std::thread calls std::terminate.
DtorMembers ==
  /\ comm.dtor \in {"closed", "members"}
  /\ DtorStep([comm EXCEPT !.dtor = IF DOMAIN comm.single_bq_ # {}
                                    THEN "terminate" ELSE "done"])

ShutInit ==
  /\ Resting
  /\ topo = TopoIdle
  /\ thr = ThreadsIdle
  /\ \E is_use_long_conn \in BOOLEAN : comm = Comm_Ctor(is_use_long_conn)

ShutNext ==
  \/ ShutSend
  \/ \E k \in 1..MaxSends : ShutBroadcastThread(k)
  \/ \E d \in Peers \cup {ProxyId}, k \in 1..MaxSends : ShutSingleThread(d, k)
  \/ \E w \in Peers \cup {ProxyId, BroadcastWorker} : WorkerExit(w)
  \/ DtorStop
  \/ DtorJoinBroadcast
  \/ DtorClose
  \/ DtorMembers

ShutdownSpec == ShutInit /\ [][ShutNext]_vars

\* ------------------------------------------------ transport producer machine
\* A communicator in long-connection mode, threads calling SendSingleMessage
\* and the per-destination workers.  A per-destination queue holds MaxQueue
\* items; BatchQueue::Push blocks while the queue is full.

QueueLen(c, d) == IF d \in DOMAIN c.single_bq_ THEN Len(c.single_bq_[d]) ELSE 0

QueueFull(c, d) == QueueLen(c, d) >= MaxQueue

PressInit ==
  /\ Resting
  /\ topo = TopoIdle
  /\ thr = ThreadsIdle
  /\ comm = Comm_Ctor(TRUE)

\* Thread t calls SendSingleMessage(message, d) and arrives at line 183.
CallSendSingle(t, d) ==
  /\ comm.caller[t].pc = "idle"
  /\ Len(comm.issued) +
       Cardinality({u \in Threads : comm.caller[u].pc # "idle"}) < MaxSends
  /\ comm' = [comm EXCEPT !.caller[t] = [pc |-> "lock", to |-> d]]
  /\ UNCHANGED <<scen, sys, rep, net, proxy, nreq, last, topo, thr>>

\* Line 183: the lock_guard takes smutex_.
LockSmutex(t) ==
  /\ comm.caller[t].pc = "lock" /\ comm.smutex_ = 0
  /\ comm' = [comm EXCEPT !.caller[t].pc = "push", !.smutex_ = t]
  /\ UNCHANGED <<scen, sys, rep, net, proxy, nreq, last, topo, thr>>

\* Lines 184-189: with smutex_ held, the queue of the destination is made
\* if need be and the item pushed, once the queue has room; the return
\* releases smutex_.
PushSingle(t) ==
  /\ comm.caller[t].pc = "push"
  /\ ~QueueFull(comm, comm.caller[t].to)
  /\ comm' = [Comm_SendSingleMessage(comm, NextMessage, comm.caller[t].to)
               EXCEPT !.issued = Append(@, [kind |-> "unicast",
                                            to |-> comm.caller[t].to]),
                      !.caller[t] = [pc |-> "idle", to |-> 0],
                      !.smutex_ = 0]
  /\ UNCHANGED <<scen, sys, rep, net, proxy, nreq, last, topo, thr>>

PressNext ==
  \/ \E t \in Threads, d \in Peers \cup {ProxyId} : CallSendSingle(t, d)
  \/ \E t \in Threads : LockSmutex(t)
  \/ \E t \in Threads : PushSingle(t)
  \/ \E d \in Peers \cup {ProxyId}, k \in 1..MaxQueue : SingleThread(d, k)

PressureSpec == PressInit /\ [][PressNext]_vars

\* ------------------------------------------- concurrent prepare machine
\* One replica whose ingress threads are in ProcessPrepareMsg at the same
\* time, each for a sequence number of its own whose AddConsensusMsg
\* returned STATE_CHANGED.  GetHighestPreparedSeq and SetHighestPreparedSeq
\* are each atomic; commitment.cpp takes no lock around the two.

PrepInit ==
  /\ Resting
  /\ topo = TopoIdle
  /\ comm = CommIdle
  /\ thr = ThreadsIdle

PrepStep(t, pc, seq_, highest, changed) ==
  /\ thr' = [thr EXCEPT !.prep[t] = [pc |-> pc, seq_ |-> seq_],
                        !.highest_prepared_seq_ = highest,
                        !.changed = changed]
  /\ UNCHANGED <<scen, sys, rep, net, proxy, nreq, last, topo, comm>>

\* Lines 294-296: seq_ is taken and AddConsensusMsg returns STATE_CHANGED.
PrepareChanged(t, seq) ==
  /\ thr.prep[t].pc = "idle"
  /\ seq \notin thr.changed \cup {thr.prep[u].seq_ : u \in Threads}
  /\ PrepStep(t, "test", seq, thr.highest_prepared_seq_, thr.changed)

\* Line 297: the comparison; a call that skips the assignment goes on to
\* its sends and returns.
TestHighest(t) ==
  /\ thr.prep[t].pc = "test"
  /\ IF thr.highest_prepared_seq_ < thr.prep[t].seq_
     THEN PrepStep(t, "set", thr.prep[t].seq_, thr.highest_prepared_seq_,
                   thr.changed)
     ELSE PrepStep(t, "idle", 0, thr.highest_prepared_seq_,
                   thr.changed \cup {thr.prep[t].seq_})

\* Line 298: the assignment, then the sends and the return.
SetHighest(t) ==
  /\ thr.prep[t].pc = "set"
  /\ PrepStep(t, "idle", 0, thr.prep[t].seq_,
              thr.changed \cup {thr.prep[t].seq_})

PrepNext ==
  \/ \E t \in Threads, seq \in 1..MaxSeq : PrepareChanged(t, seq)
  \/ \E t \in Threads : TestHighest(t)
  \/ \E t \in Threads : SetHighest(t)

PreparedSpec == PrepInit /\ [][PrepNext]_vars

\* --------------------------------------------------------------- properties

\* The sequence numbers at which replica r has executed a batch of hash h.
ExecutedSeqs(r, h) ==
  {q \in DOMAIN rep[r].slots :
     rep[r].slots[q].phase = "EXECUTED" /\ rep[r].slots[q].hash = h}

\* Nothing is left to do: every message was received, every batch that can
\* execute has executed, every response was sent.  A run that ends here has
\* delivered every message, so it is a fair run.
Quiescent ==
  /\ net = {}
  /\ \A r \in DOMAIN rep : ~CanExecute(rep[r]) /\ rep[r].resp_queue = <<>>

NoCrash == \A r \in DOMAIN rep : ~rep[r].crashed

\* Replica r forwarded exactly one client request, a well-formed signed one.
ForwardedValid(r) ==
  /\ Len(rep[r].request_complained_) = 1
  /\ rep[r].request_complained_[1].signed
  /\ VerifyMessage(rep[r].request_complained_[1])

\* The positive RESPONSE messages for hash h that reached the proxy.
Replies(h) ==
  {x \in BagToSet(proxy) : x.type = "RESPONSE" /\ x.hash = h /\ x.ret = RET_OK}

\* The coordinators whose proposal of hash h was executed somewhere.
ExecPrimaries(h) ==
  UNION {{rep[r].slots[q].primary_id : q \in ExecutedSeqs(r, h)} : r \in DOMAIN rep}

\* The outer-level PRE_PREPAREs in flight: built by ProcessNewRequest, they
\* carry the batch data and the proposer as sender and primary_id.
OuterPrePrepares ==
  {m \in net : m.type = "PRE_PREPARE" /\ m.sender = m.primary_id /\ m.data # NoData}

C2_Agreement ==
  \A r1, r2 \in DOMAIN rep :
    NodesInSameShard(sys, r1, r2) =>
      \A q \in DOMAIN rep[r1].slots \cap DOMAIN rep[r2].slots :
        (rep[r1].slots[q].phase = "EXECUTED" /\ rep[r2].slots[q].phase = "EXECUTED")
          => /\ rep[r1].slots[q].hash = rep[r2].slots[q].hash
             /\ rep[r1].slots[q].data = rep[r2].slots[q].data

\* Two distinct replicas of one shard have both executed some seq (no
\* reachable state: a shard member never accepts its inner pre-prepare).
C2_TwoExecuted ==
  \E r1, r2 \in DOMAIN rep :
    /\ r1 # r2 /\ NodesInSameShard(sys, r1, r2)
    /\ \E q \in DOMAIN rep[r1].slots \cap DOMAIN rep[r2].slots :
         rep[r1].slots[q].phase = "EXECUTED" /\ rep[r2].slots[q].phase = "EXECUTED"

\* C3 - a sequence number names one batch: no two outer-level PRE_PREPAREs
\* sent by the coordinators carry the same seq and different request hashes.
C3_SeqNamesOneBatch ==
  \A a, b \in OuterPrePrepares : a.seq = b.seq => a.hash = b.hash

\* C4 - sharded path (S3): after the signed request sent to replica 7 was
\* forwarded and every message was delivered, every shard has executed seq 1
\* (the weakest reading: some replica of every shard).
C4_ShardedPath ==
  (scen = "S3" /\ ForwardedValid(7) /\ NoCrash /\ Quiescent) =>
    \A i \in 0..(GetShardCount(sys) - 1) :
      \E r \in SeqToSet(GetNodesInShard(sys, i)) : rep[r].last_exec >= 1

\* C5 - happy path (S1): after the signed request sent to replica 2 was
\* forwarded and every message was delivered, all four replicas have
\* executed seq 1.
C5_HappyPath ==
  (scen = "S1" /\ ForwardedValid(2) /\ NoCrash /\ Quiescent) =>
    \A r \in DOMAIN rep : rep[r].last_exec >= 1

\* C6 - single reply per shard: the RESPONSEs for a request, from the
\* response worker and from the already-executed path together, number at
\* most the size of the shard that coordinated it (counted by responding
\* replica, so that the answers to a resend do not add up), and none comes
\* from a replica outside that shard.
C6_SingleReplyPerShard ==
  \A h \in Hashes : \A c \in ExecPrimaries(h) :
    /\ Cardinality({x.sender : x \in Replies(h)}) <=
         GetShardSize(sys, GetShardOfNode(sys, c))
    /\ \A x \in Replies(h) : NodesInSameShard(sys, x.sender, c)

\* C7 - single-shard happy path: once the run of the one transaction is
\* complete, exactly one replica has sent a RESPONSE with seq = 1 and the
\* request's hash to the proxy.
C7_OneResponder ==
  (scen = "S1" /\ ForwardedValid(2) /\ NoCrash /\ Quiescent) =>
    Cardinality({x.sender : x \in {y \in Replies(rep[2].request_complained_[1].hash) :
                                     y.seq = 1}}) = 1

\* C8 - duplicate request (S2): ProcessNewRequest on a signed request whose
\* hash this replica executed at seq s sends a RESPONSE carrying s to the
\* proxy and nothing else, and leaves the replica as it was: no sequence
\* number assigned, no proposed mark, no forward, no slot.
C8_DuplicateRequest ==
  [][(/\ last'.op = "NewRequest" /\ last'.msg.signed
      /\ CheckIfExecuted(rep[last'.self], last'.msg.hash) # 0)
     => /\ last'.out # {}
        /\ \A x \in last'.out :
             /\ x.type = "RESPONSE" /\ x.to = ProxyId
             /\ x.hash = last'.msg.hash
             /\ x.seq = CheckIfExecuted(rep[last'.self], last'.msg.hash)
        /\ net' \subseteq net
        /\ rep' = rep]_vars

\* A resend of an executed hash was answered with its sequence number.
C8_Witness ==
  /\ last.op = "NewRequest" /\ last.msg.signed
  /\ CheckIfExecuted(rep[last.self], last.msg.hash) # 0
  /\ \E x \in last.out : x.type = "RESPONSE" /\ x.seq >= 1

\* C9 - equivocation (S4): ProcessProposeMsg on a PRE_PREPARE for a seq whose
\* slot already holds a pre-prepare with another hash returns a rejection,
\* sends no PREPARE, and leaves the replica's state (slot, proposed set) as
\* it was.
C9_Equivocation ==
  [][(/\ last'.op = "Propose"
      /\ SlotOf(rep[last'.self], last'.msg.seq).has_pp
      /\ SlotOf(rep[last'.self], last'.msg.seq).hash # last'.msg.hash)
     => /\ last'.ret = RET_REJECT
        /\ \A x \in last'.out : x.type # "PREPARE"
        /\ rep'[last'.self] = rep[last'.self]]_vars

\* C10 - backpressure (S5): when AssignNextSeq fails in ProcessNewRequest the
\* coordinator sends a negative RESPONSE for the hash to the proxy, sends no
\* PRE_PREPARE, and the hash is not marked proposed on return, so the same
\* request passes the duplicate filter again.
C10_Backpressure ==
  [][(/\ last'.op = "NewRequest" /\ last'.msg.signed
      /\ CheckIfExecuted(rep[last'.self], last'.msg.hash) = 0
      /\ last'.self = GetPrimaryOfNode(sys, last'.self)
      /\ VerifyMessage(last'.msg)
      /\ ~IsProposed(rep[last'.self], last'.msg.hash)
      /\ ~AssignOk(rep[last'.self]))
     => /\ \E x \in last'.out :
             /\ x.type = "RESPONSE" /\ x.to = ProxyId
             /\ x.ret < 0 /\ x.hash = last'.msg.hash
        /\ \A x \in last'.out : x.type # "PRE_PREPARE"
        /\ ~IsProposed(rep'[last'.self], last'.msg.hash)
        /\ ~NewRequestIsDuplicate(rep'[last'.self], last'.msg)
        /\ rep'[last'.self].next_seq = rep[last'.self].next_seq]_vars

\* A coordinator at its in-flight cap has just refused a new request.
C10_Witness ==
  /\ last.op = "NewRequest" /\ last.ret = RET_REJECT
  /\ last.self = GetPrimaryOfNode(sys, last.self)
  /\ ~AssignOk(rep[last.self])
  /\ \E x \in last.out : x.type = "RESPONSE" /\ x.ret = RET_REJECT

\* C11 - ingress routing (S6): a non-coordinator that receives a PRE_PREPARE,
\* PREPARE or COMMIT whose sender is outside its shard forwards the message
\* to its own shard's coordinator, a registered replica, and does nothing
\* else: its state (slots, proposed set) is as before and it emits no
\* message of its own.
C11_IngressRouting ==
  [][(/\ last'.op \in {"Propose", "Prepare", "Commit", "Misrouted"}
      /\ MustRoute(sys, last'.self, last'.msg))
     => /\ GetPrimaryOfNode(sys, last'.self) \in NodeIds(sys)
        /\ last'.out = {[last'.msg EXCEPT !.to = GetPrimaryOfNode(sys, last'.self),
                                          !.signed = TRUE]}
        /\ last'.ret = RET_FORWARDED
        /\ rep'[last'.self] = rep[last'.self]]_vars

\* A shard member has just forwarded a PRE_PREPARE from another shard.
C11_Witness ==
  /\ last.op = "Misrouted" /\ last.msg.type = "PRE_PREPARE"
  /\ MustRoute(sys, last.self, last.msg)
  /\ last.out # {}

\* The position of a phase in IDLE < READY_PREPARE < READY_COMMIT <
\* READY_EXECUTE < EXECUTED.
PhaseRank(phase) ==
  CASE phase = "IDLE" -> 0
    [] phase = "READY_PREPARE" -> 1
    [] phase = "READY_COMMIT" -> 2
    [] phase = "READY_EXECUTE" -> 3
    [] OTHER -> 4

ShardIds(si) == 0..(si.shard_count_ - 1)

\* The shards that list node n, with the position of each occurrence.
Occurrences(si, n) ==
  {<<s, i>> \in UNION {{<<s, i>> : i \in 1..Len(si.shard_to_nodes_[s])} :
                         s \in DOMAIN si.shard_to_nodes_} :
     si.shard_to_nodes_[s][i] = n}

\* C15 - shard-load balance: after SetShardCount(S), S >= 1, followed only by
\* AddReplica calls (valid, duplicate or malformed), the sizes of any two of
\* the S shards differ by at most 1.
C15_ShardLoadBalance ==
  topo.adds_only =>
    \A a, b \in ShardIds(topo.si) :
      GetShardSize(topo.si, a) - GetShardSize(topo.si, b) <= 1

\* Three replicas were added over two shards: sizes 2 and 1.
C15_Witness ==
  /\ topo.adds_only /\ topo.op = "AddReplica"
  /\ GetShardCount(topo.si) = 2
  /\ GetShardSize(topo.si, 0) = 2 /\ GetShardSize(topo.si, 1) = 1

\* C16 - coordinator existence: after any sequence of SetShardCount,
\* SetReplicas and AddReplica calls every non-empty shard has a coordinator
\* (one: shard_primaries_ is a map), the coordinator is a member of the shard
\* and it is the first replica that was assigned to the shard.
C16_CoordinatorExistence ==
  \A s \in DOMAIN topo.si.shard_to_nodes_ :
    GetShardSize(topo.si, s) > 0 =>
      /\ s \in DOMAIN topo.si.shard_primaries_
      /\ GetPrimaryOfShard(topo.si, s) \in SeqToSet(GetNodesInShard(topo.si, s))
      /\ GetPrimaryOfShard(topo.si, s) = GetNodesInShard(topo.si, s)[1]

\* A shard has received its second member.
C16_Witness ==
  /\ topo.op = "AddReplica" /\ topo.si # topo.before
  /\ \E s \in DOMAIN topo.si.shard_to_nodes_ : GetShardSize(topo.si, s) >= 2

\* C17 - after any sequence of topology operations (construction from a
\* config, SetReplicas, SetShardCount, AddReplica) every replica in the
\* replica list appears in exactly one shard's member list.
C17_ReplicasAssigned ==
  \A n \in NodeIds(topo.si) :
    Cardinality({o[1] : o \in Occurrences(topo.si, n)}) = 1

\* C18 - after any sequence of topology operations node_to_shard is the
\* inverse of shard_to_nodes: n maps to s iff n occurs in the member list of
\* s, each node occurs at most once over all member lists, and every assigned
\* shard id lies in [0, shard_count).
C18_NodeToShardInverse ==
  /\ \A n \in 0..MaxNodes : \A s \in 0..MaxShards :
       (GetShardOfNode(topo.si, n) = s) <=>
         (n \in SeqToSet(GetNodesInShard(topo.si, s)))
  /\ \A n \in 0..MaxNodes : Cardinality(Occurrences(topo.si, n)) <= 1
  /\ \A n \in DOMAIN topo.si.node_to_shard_ :
       topo.si.node_to_shard_[n] \in ShardIds(topo.si)

\* C19 - SetShardCount(S) called when at least one replica is assigned to a
\* shard fails: the shard count, the node-to-shard map, the shard member
\* lists and the shard coordinators are as before the call.
C19_SetShardCountGuard ==
  (topo.op = "SetShardCount" /\ DOMAIN topo.before.node_to_shard_ # {}) =>
    /\ topo.si.shard_count_ = topo.before.shard_count_
    /\ topo.si.node_to_shard_ = topo.before.node_to_shard_
    /\ topo.si.shard_to_nodes_ = topo.before.shard_to_nodes_
    /\ topo.si.shard_primaries_ = topo.before.shard_primaries_

\* C20 - AddReplica is idempotent and rejects bad input without side effects:
\* called with an id that is already registered, with id 0, an empty ip or
\* port 0 it leaves the replica list, the node-to-shard map, the shard member
\* lists and the shard coordinators as they were; AddReplica(r) twice yields
\* the topology of AddReplica(r) once.
C20_AddReplicaIdempotent ==
  /\ (/\ topo.op = "AddReplica"
      /\ Malformed(topo.arg) \/ topo.arg.id \in NodeIds(topo.before))
     => /\ topo.si.replicas_ = topo.before.replicas_
        /\ topo.si.node_to_shard_ = topo.before.node_to_shard_
        /\ topo.si.shard_to_nodes_ = topo.before.shard_to_nodes_
        /\ topo.si.shard_primaries_ = topo.before.shard_primaries_
  /\ \A r \in ReplicaInputs :
       AddReplica(AddReplica(topo.si, r), r) = AddReplica(topo.si, r)

\* A replica that AddReplica had assigned to a shard was added again.
C20_Witness ==
  /\ topo.op = "AddReplica" /\ ~Malformed(topo.arg)
  /\ topo.arg.id \in DOMAIN topo.before.node_to_shard_
  /\ topo.arg.id \in NodeIds(topo.before)

\* The position of message i on the connection to d (0: not written).
WirePos(c, d, i) ==
  IF \E p \in 1..Len(c.wire[d]) : c.wire[d][p] = i
  THEN CHOOSE p \in 1..Len(c.wire[d]) : c.wire[d][p] = i
  ELSE 0

\* Every queue of the communicator has been drained.
Drained(c) ==
  /\ c.batch_queue_ = <<>>
  /\ \A d \in DOMAIN c.single_bq_ : c.single_bq_[d] = <<>>

\* C13 - transport order: in long-connection mode any two messages that the
\* replica sends to the same destination, by broadcast, unicast, unicast by
\* id or SendBatchMessage, are written to that destination's connection in
\* the order in which the sends were issued.
C13_TransportOrder ==
  comm.is_use_long_conn_ =>
    \A d \in DOMAIN comm.wire : \A i, j \in 1..Len(comm.issued) :
      (/\ i < j /\ SentTo(comm, i, d) /\ SentTo(comm, j, d)
       /\ WirePos(comm, d, j) > 0)
      => /\ WirePos(comm, d, i) > 0
         /\ WirePos(comm, d, i) < WirePos(comm, d, j)

\* C14 - unicast: SendMessage(msg, destination), by replica info or by id of
\* a known node, delivers msg to the named destination and to no other
\* replica, in long-connection mode and in short-connection mode.
C14_Unicast ==
  \A i \in 1..Len(comm.issued) :
    (/\ comm.issued[i].kind \in {"unicast", "by_id"}
     /\ comm.issued[i].to \in comm.replicas_ \cup comm.clients_)
    => /\ \A d \in DOMAIN comm.wire :
            d # comm.issued[i].to => WirePos(comm, d, i) = 0
       /\ Drained(comm) => WirePos(comm, comm.issued[i].to, i) > 0

\* The last operation was an AddReplica that registered its argument.
Accepted ==
  /\ topo.op = "AddReplica"
  /\ Len(topo.si.replicas_) = Len(topo.before.replicas_) + 1

\* C21 - placement policy: each accepted AddReplica assigns the new replica
\* to a shard of 0..S-1 whose member count before the call is minimal, and
\* among the shards with that minimum to the one with the smallest shard id.
C21_PlacementPolicy ==
  Accepted =>
    LET target == GetShardOfNode(topo.si, topo.arg.id) IN
    /\ target \in ShardIds(topo.si)
    /\ GetNodesInShard(topo.si, target) =
         Append(GetNodesInShard(topo.before, target), topo.arg.id)
    /\ \A s \in ShardIds(topo.si) :
         /\ GetShardSize(topo.before, target) <= GetShardSize(topo.before, s)
         /\ s < target =>
              GetShardSize(topo.before, target) < GetShardSize(topo.before, s)

\* A replica was placed in shard 0 while shards 0 and 1 tied for the minimum
C21_Witness ==
  /\ Accepted
  /\ GetShardCount(topo.si) = 2
  /\ GetShardSize(topo.before, 0) = 1 /\ GetShardSize(topo.before, 1) = 1
  /\ GetShardOfNode(topo.si, topo.arg.id) = 0

\* The objects reached from si by whole AddReplica calls of some of the
\* threads of `ts`, one at a time in some order.
RECURSIVE SerialPrefixes(_, _)
SerialPrefixes(si, ts) ==
  {si} \cup UNION {SerialPrefixes(AddReplica(si, thr.arg[t]), ts \ {t}) : t \in ts}

\* The objects reached from si by the whole calls of all threads of `ts`.
RECURSIVE SerialResults(_, _)
SerialResults(si, ts) ==
  IF ts = {} THEN {si}
  ELSE UNION {SerialResults(AddReplica(si, thr.arg[t]), ts \ {t}) : t \in ts}

Called == {t \in Threads : thr.pc[t] # "idle"}

\* C22 - topology mutations are serialized: when threads call AddReplica
\* concurrently, no container is corrupted, a query observes an object that
\* exists between two whole calls, and once the calls have returned the
\* topology is the result of executing them one at a time in some order.
C22_Serialized ==
  /\ ~thr.corrupt
  /\ thr.seen \in {Snapshot(si) : si \in SerialPrefixes(thr.init, Called)}
  /\ (\A t \in Called : thr.pc[t] = "done") =>
       thr.si \in SerialResults(thr.init, Called)

\* C23 - a request hash is marked proposed only after the request's
\* data_signature was verified successfully: a call of ProcessNewRequest or
\* ProcessProposeMsg adds to the proposed set of the replica at most the hash
\* of its message, and only if VerifyMessage holds of that message; no other
\* step adds to a proposed set.
C23_MarkAfterVerify ==
  [][\A r \in DOMAIN rep :
       rep'[r].proposed \subseteq rep[r].proposed
       \/ /\ last'.self = r
          /\ last'.op \in {"NewRequest", "Propose"}
          /\ rep'[r].proposed = rep[r].proposed \cup {last'.msg.hash}
          /\ VerifyMessage(last'.msg)]_vars

\* A coordinator has just refused a request whose data signature does not
\* verify, and the hash is not in its proposed set.
C23_Witness ==
  /\ last.op = "NewRequest" /\ last.path = "badsig"
  /\ ~VerifyMessage(last.msg)
  /\ last.msg.hash \notin rep[last.self].proposed

\* C28 - ProcessNewRequest on a replica that is not its shard's coordinator,
\* for a signed request not yet executed, forwards the request to the shard
\* coordinator, appends the original to the pending-forwards queue exactly
\* once, returns the forwarded code and does nothing else: nothing is marked
\* proposed, no sequence number is assigned, no slot is touched and no
\* PRE_PREPARE is sent, whether or not the data signature verifies.
C28_ForwardFrame ==
  [][(/\ last'.op = "NewRequest"
      /\ last'.msg.signed
      /\ last'.self # GetPrimaryOfNode(sys, last'.self)
      /\ CheckIfExecuted(rep[last'.self], last'.msg.hash) = 0)
     => /\ last'.ret = RET_FORWARDED
        /\ last'.out = {[last'.msg EXCEPT !.to = GetPrimaryOfNode(sys, last'.self),
                                          !.sender = ClientId, !.signed = TRUE]}
        /\ rep'[last'.self] =
             [rep[last'.self] EXCEPT
                !.request_complained_ = Append(@, last'.msg)]]_vars

\* A non-coordinator has just forwarded a signed request.
C28_Witness ==
  /\ last.op = "NewRequest" /\ last.path = "forward"
  /\ last.self # GetPrimaryOfNode(sys, last.self)
  /\ Len(rep[last.self].request_complained_) = 1

\* The entry-point calls that handle a message.
EntryOps == {"NewRequest", "Propose", "Prepare", "Commit", "Misrouted", "Faulty"}

\* C24 - signature check first: in each of ProcessNewRequest,
\* ProcessProposeMsg, ProcessPrepareMsg and ProcessCommitMsg a message with
\* no context or an empty signature is rejected with the error code before
\* any other effect: nothing is sent (no forward, no answer) and the
\* replica's DuplicateGuard and MessageStore state is as before.
C24_SignatureFirst ==
  [][(last'.op \in EntryOps /\ ~last'.msg.signed)
     => /\ last'.ret = RET_REJECT
        /\ last'.out = {}
        /\ rep' = rep]_vars

\* C25 - hash mismatch is rejected: a NEW_REQUEST or PRE_PREPARE whose hash
\* field is not the content digest of its data gets a negative return code;
\* the receiver assigns no sequence number, marks no hash proposed, creates
\* no slot and emits no PRE_PREPARE or PREPARE of its own.
C25_HashMismatchRejected ==
  [][(/\ last'.op \in EntryOps
      /\ last'.msg.type \in {"NEW_REQUEST", "PRE_PREPARE"}
      /\ last'.msg.hash # CalculateHash(last'.msg.data))
     => /\ last'.ret < 0
        /\ rep'[last'.self].next_seq = rep[last'.self].next_seq
        /\ rep'[last'.self].proposed = rep[last'.self].proposed
        /\ rep'[last'.self].slots = rep[last'.self].slots
        /\ \A x \in last'.out :
             x.sender = last'.self => x.type \notin {"PRE_PREPARE", "PREPARE"}]_vars

\* The sender of a PRE_PREPARE has authority over the receiver.
HasAuthority(si, self, request) ==
  \/ request.sender = GetCurrentPrimary(si)
  \/ request.sender = GetPrimaryOfNode(si, self)

\* C29 as stated - ProcessProposeMsg rejects every non-recovery PRE_PREPARE
\* whose sender is neither the global primary nor the coordinator of the
\* receiver's shard: error code, no slot, no hash marked, nothing emitted.
C29_AuthorityAsStated ==
  [][(/\ last'.op \in EntryOps /\ last'.msg.type = "PRE_PREPARE"
      /\ ~last'.msg.is_recovery
      /\ ~HasAuthority(sys, last'.self, last'.msg))
     => /\ last'.ret = RET_REJECT
        /\ last'.out = {}
        /\ rep' = rep]_vars

\* C29 - a non-recovery PRE_PREPARE that is not subject to ingress routing
\* (the receiver is its shard's coordinator, or the sender is in the
\* receiver's shard) and whose sender is neither the global primary nor the
\* coordinator of the receiver's shard is rejected: error code, no slot, no
\* hash marked, nothing emitted.  A PRE_PREPARE from the global primary or
\* from the receiver's coordinator is never rejected on authority grounds.
C29_Authority ==
  [][(/\ last'.op \in EntryOps /\ last'.msg.type = "PRE_PREPARE"
      /\ ~last'.msg.is_recovery)
     => /\ (/\ ~MustRoute(sys, last'.self, last'.msg)
            /\ ~HasAuthority(sys, last'.self, last'.msg))
           => /\ last'.ret = RET_REJECT
              /\ last'.out = {}
              /\ rep' = rep
        /\ HasAuthority(sys, last'.self, last'.msg)
           => last'.path # "authority"]_vars

\* A coordinator has just refused a signed PRE_PREPARE of another shard's
\* coordinator that is not the global primary.
C29_Witness ==
  /\ last.op = "Propose" /\ last.path = "authority"
  /\ last.msg.signed
  /\ ~HasAuthority(sys, last.self, last.msg)
  /\ last.ret = RET_REJECT

\* C30 - when ProcessProposeMsg accepts an inner-level PRE_PREPARE with
\* STATE_CHANGED (lines 254-261), the receiver sends its PREPARE to every
\* member of its own shard, each once, and to no other replica.
C30_InnerPrepareToShard ==
  [][(/\ last'.op \in EntryOps /\ last'.msg.type = "PRE_PREPARE"
      /\ last'.path = "changed-inner")
     => /\ {x.to : x \in last'.out} = Members(sys, last'.self)
        /\ Cardinality(last'.out) = Cardinality(Members(sys, last'.self))
        /\ \A x \in last'.out : x.type = "PREPARE" /\ x.sender = last'.self]_vars

\* C26 - shutdown drains: once the destructor has closed the connections,
\* every payload that was enqueued in the broadcast queue or in a
\* per-destination queue has been written; destruction ends normally, and
\* when it has ended every started worker thread (broadcast and
\* per-destination) has seen the stop flag and returned.
C26_ShutdownDrains ==
  /\ comm.dtor \in {"closed", "done", "terminate"} => Drained(comm)
  /\ comm.dtor # "terminate"
  /\ comm.dtor = "done" => Workers(comm) \subseteq comm.exited

\* Thread t is blocked in Push on the full queue of its destination.
BlockedOnFull(c, t) ==
  c.caller[t].pc = "push" /\ QueueFull(c, c.caller[t].to)

\* C27 - backpressure is per destination: while a producer is blocked on
\* the full queue of destination X, no thread that is sending to another
\* destination Y, whose queue is not full, waits for a mutex that the
\* blocked producer holds.
C27_PerDestinationBackpressure ==
  \A t, u \in Threads :
    (/\ BlockedOnFull(comm, t)
     /\ comm.caller[u].pc = "lock"
     /\ comm.caller[u].to # comm.caller[t].to
     /\ ~QueueFull(comm, comm.caller[u].to))
    => comm.smutex_ # t

\* The largest element of a non-empty set of numbers.
Max(S) == CHOOSE x \in S : \A y \in S : y <= x

\* C31 - highest_prepared_seq is the running maximum: it never decreases,
\* and once the ProcessPrepareMsg calls that returned STATE_CHANGED, for
\* different sequence numbers on concurrent ingress threads, have all
\* returned, it equals the largest seq among them.
C31_RunningMaximum ==
  [][/\ thr'.highest_prepared_seq_ >= thr.highest_prepared_seq_
     /\ (/\ \A t \in Threads : thr'.prep[t].pc = "idle"
         /\ thr'.changed # {})
        => thr'.highest_prepared_seq_ = Max(thr'.changed)]_vars

\* C32 - when an outer-level slot reaches READY_COMMIT in ProcessPrepareMsg,
\* only the global primary emits the COMMIT, its recipients are exactly the
\* shard coordinators, and a coordinator that is not the global primary
\* emits nothing at that step.
C32_OuterCommitToCoordinators ==
  [][(/\ last'.op \in EntryOps /\ last'.msg.type = "PREPARE"
      /\ last'.path = "changed-outer")
     => IF last'.self = GetCurrentPrimary(sys)
        THEN /\ {x.to : x \in last'.out} = Coordinators(sys)
             /\ \A x \in last'.out : x.type = "COMMIT" /\ x.sender = last'.self
        ELSE last'.out = {}]_vars

\* C33 - when the commit quorum of a coordinator's outer-level slot for seq
\* is reached in ProcessCommitMsg, the coordinator starts the inner PBFT: it
\* sends a PRE_PREPARE for the slot's (seq, hash, data) to every member of
\* its shard other than itself and a PREPARE to every member of its shard,
\* itself included, and the batch is not handed to execution at that step.
C33_InnerStart ==
  [][(/\ last'.op \in EntryOps /\ last'.msg.type = "COMMIT"
      /\ last'.path \in {"changed-outer", "crash"}
      /\ SlotOf(rep[last'.self], last'.msg.seq).level = "outer")
     => LET slot == SlotOf(rep[last'.self], last'.msg.seq)
            proposes == {x \in last'.out : x.type = "PRE_PREPARE"}
            prepares == {x \in last'.out : x.type = "PREPARE"}
        IN /\ {x.to : x \in proposes} = Members(sys, last'.self) \ {last'.self}
           /\ \A x \in proposes :
                x.seq = last'.msg.seq /\ x.hash = slot.hash /\ x.data = slot.data
           /\ {x.to : x \in prepares} = Members(sys, last'.self)
           /\ rep'[last'.self].last_exec = rep[last'.self].last_exec
           /\ SlotOf(rep'[last'.self], last'.msg.seq).phase
                \notin {"READY_EXECUTE", "EXECUTED"}]_vars

\* C34 - a PRE_PREPARE with is_recovery set is admitted by ProcessProposeMsg
\* only when the store's next sequence is 0 or equals the message's seq; an
\* admitted message sets the next sequence to seq + 1 and is inserted into
\* the store; a message that is not admitted leaves the store's slots and
\* next sequence unchanged; on neither path is a PREPARE emitted or a hash
\* marked proposed.
C34_RecoveryAdmission ==
  [][(last'.op = "Recovery")
     => LET self == last'.self
            m == last'.msg
            s == rep[self]
            admitted == last'.path = "recovery"
        IN /\ m.type = "PRE_PREPARE" /\ m.is_recovery
           /\ admitted => /\ GetNextSeq(s) = 0 \/ m.seq = GetNextSeq(s)
                          /\ GetNextSeq(rep'[self]) = m.seq + 1
                          /\ SlotOf(rep'[self], m.seq).has_pp
                          /\ ~SlotOf(s, m.seq).has_pp
                               => /\ SlotOf(rep'[self], m.seq).hash = m.hash
                                  /\ SlotOf(rep'[self], m.seq).data = m.data
           /\ last'.path = "recovery-refused"
                => ~(GetNextSeq(s) = 0 \/ m.seq = GetNextSeq(s))
           /\ ~admitted => /\ rep'[self].slots = s.slots
                           /\ GetNextSeq(rep'[self]) = GetNextSeq(s)
           /\ \A x \in last'.out : x.type # "PREPARE"
           /\ rep'[self].proposed = s.proposed]_vars

\* A recovery PRE_PREPARE for seq 2 was admitted by a replica whose next
\* sequence had reached 2 and filled an empty slot.
C34_Witness ==
  /\ last.op = "Recovery" /\ last.path = "recovery" /\ last.msg.seq = 2
  /\ GetNextSeq(rep[last.self]) = 3
  /\ SlotOf(rep[last.self], 2).has_pp
  /\ SlotOf(rep[last.self], 2).proposer = last.msg.sender

\* C35 - once an entry point has moved a request into the store through
\* AddConsensusMsg it never reads the request again: the outcome of a
\* ProcessProposeMsg or ProcessCommitMsg call (state, messages sent, return
\* value) is the same whatever the moved-from request object holds, every
\* value used after the insertion having been taken before it.
C35_NoReadAfterMove ==
  [][(last'.op \in EntryOps /\ last'.msg.type \in {"PRE_PREPARE", "COMMIT"})
     => LET self == last'.self
            request == last'.msg
        IN IF request.type = "PRE_PREPARE"
           THEN \A a, b \in UBOutcomes :
                  ProcessProposeMsg(sys, self, rep[self], request, a)
                    = ProcessProposeMsg(sys, self, rep[self], request, b)
           ELSE \A a, b \in UBOutcomes :
                  ProcessCommitMsg(sys, self, rep[self], request, a)
                    = ProcessCommitMsg(sys, self, rep[self], request, b)]_vars

====
